---- MODULE Spec2Model ----
(***************************************************************************)
(* Multi-agent earnings analysis pipeline: the stage contract              *)
(* (BaseAgent.process), the four agents, and the LangGraph workflow that   *)
(* threads one AnalysisState through them.                                 *)
(*                                                                         *)
(* Conventions of the model                                                *)
(*  - a Python dict is a function whose domain is its set of keys;         *)
(*  - a Python value of unknown type (the input of process) is a record    *)
(*    [kind, d]: kind is "none", "str", "list" or "dict", d the dict;      *)
(*  - a report text is abstracted by what the code looks for in it: its    *)
(*    length, the vocabulary items that occur as substrings of the         *)
(*    lower-cased text, and the number each extractor pattern matches;     *)
(*  - decimal numbers are integers in units of 1/10000, so 0.85 is 8500,   *)
(*    12 (percent) is 120000, and a number with at most two decimals is a  *)
(*    multiple of 100.                                                     *)
(***************************************************************************)
EXTENDS Integers, Sequences, FiniteSets, TLC

VARIABLES
    status,      \* status[s]: the status field of stage instance s (shared by all runs)
    pc,          \* pc[r]: the node pipeline run r is at
    ctx,         \* ctx[r]: the AnalysisState of run r
    results,     \* results[r]: stage name -> the AgentResult its process returned in run r
    trace,       \* trace[r]: the node entries and returns of run r, in order
    aggregate,   \* aggregate[r]: the dictionary process_earnings_report returned
    llm_client,  \* whether the agents were constructed with an llm client
    state,       \* state[s]: the state mapping of stage instance s
    arg,         \* the input drawn for a function applied on its own
    call         \* the last direct call of process on a stage, outside any run

vars == <<status, pc, ctx, results, trace, aggregate, llm_client, state, arg, call>>

-----------------------------------------------------------------------------
(* Bounds of the model *)

\* Number of pipeline runs that may be in progress on the same stage instances.
MaxRuns == 2

Runs == 1..MaxRuns

-----------------------------------------------------------------------------
(* Python values *)

EmptyDict == [k \in {} |-> 0]

\* dict.get(key, default)
Get(d, key, default) == IF key \in DOMAIN d THEN d[key] ELSE default

\* d[key] = value on a dict
Put(d, key, value) == [k \in DOMAIN d \cup {key} |-> IF k = key THEN value ELSE d[k]]

\* str(list) for a list of strings, as the f-strings of the workflow nodes print it
RECURSIVE JoinQuoted(_)
JoinQuoted(errs) ==
    IF Len(errs) = 0 THEN ""
    ELSE IF Len(errs) = 1 THEN "'" \o errs[1] \o "'"
    ELSE "'" \o errs[1] \o "', " \o JoinQuoted(Tail(errs))

FormatList(errs) == "[" \o JoinQuoted(errs) \o "]"

Min(a, b) == IF a <= b THEN a ELSE b
Max(a, b) == IF a >= b THEN a ELSE b

\* The integer nearest to num/den (den > 0, num >= 0), a tie going to the even one.
RoundHalfEven(num, den) ==
    LET q == num \div den
        r == num % den
    IN  IF 2 * r < den THEN q
        ELSE IF 2 * r > den THEN q + 1
        ELSE IF q % 2 = 0 THEN q ELSE q + 1

\* round(x, 2) of the fraction num/den, in units of 1/10000.
Round2(num, den) == 100 * RoundHalfEven(num, 100 * den)

\* The integer nearest to num/den (den > 0, num >= 0), a tie going up.
RoundHalfUp(num, den) == (2 * num + den) \div (2 * den)

-----------------------------------------------------------------------------
(* AgentStatus and AgentResult (base.py) *)

AgentStatus == {"ready", "running", "success", "failed", "retry"}

\* AgentResult(agent_name, status, data, errors); errors=None is the empty sequence
AgentResult(name, st, data, errors) ==
    [agent_name |-> name, status |-> st, data |-> data, errors |-> errors]

Stages == {"coordinator", "data_extractor", "sentiment_analyzer", "summary_generator"}

\* ExampleAgent stands for any further subclass of BaseAgent
AllStages == Stages \cup {"example_agent"}

-----------------------------------------------------------------------------
(* Report texts *)

\* "kw in content_lower": the vocabulary item occurs in the lower-cased text
In(text, w) == w \in text.words

\* re.search(pattern, report_content) found a match / float(match.group(1))
Match(text, pat) == pat \in DOMAIN text.nums
Number(text, pat) == text.nums[pat]

\* None where a report text is expected, and whether a value is a str
NoneValue == [none |-> TRUE]
IsString(v) == "len" \in DOMAIN v

\* "not report_content": None and the empty string are falsy
Falsy(text) == ~IsString(text) \/ text.len = 0

EmptyText == [len |-> 0, words |-> {}, nums |-> EmptyDict]

-----------------------------------------------------------------------------
(* SentimentAnalysisAgent (sentiment.py) *)

POSITIVE_KEYWORDS ==
    << "exceeded", "remarkable", "unprecedented", "strong", "outstanding",
       "thrilled", "growth", "substantial", "record", "success", "achieved",
       "improvement", "optimistic", "confident", "opportunity" >>

NEGATIVE_KEYWORDS ==
    << "challenge", "uncertainty", "risk", "decline", "cautious",
       "concern", "headwind", "saturation", "volatility", "weak",
       "shortfall", "miss", "pressure", "difficult" >>

\* positive_found / negative_found, lines 189-200
KeywordsFound(keywords, text) == SelectSeq(keywords, LAMBDA k : In(text, k))

\* overall_sentiment, lines 206-239
OverallSentiment(p, n) ==
    IF p + n = 0 THEN "neutral"
    ELSE IF 2 * p > p + n THEN "positive"
    ELSE IF 2 * p < p + n THEN "negative"
    ELSE "neutral"

\* HeuristicConfidence with the test for five positive keywords made strict
HeuristicConfidenceStrict(p, n) ==
    LET t == p + n
    IN  IF t = 0 THEN <<5000, 1>>
        ELSE IF 2 * p > t
             THEN IF p > 5 THEN <<8500, 1>>
                  ELSE <<Min(9500 * t, 7000 * t + 2500 * p), t>>
        ELSE IF 2 * p < t THEN <<Min(9500 * t, 5000 * (t - p)), t>>
        ELSE <<5000, 1>>

\* HeuristicConfidence with a base of 0.60 for a positive tone
HeuristicConfidenceLowBase(p, n) ==
    LET t == p + n
    IN  IF t = 0 THEN <<5000, 1>>
        ELSE IF 2 * p > t
             THEN IF p >= 5 THEN <<8500, 1>>
                  ELSE <<Min(9500 * t, 6000 * t + 2500 * p), t>>
        ELSE IF 2 * p < t THEN <<Min(9500 * t, 5000 * (t - p)), t>>
        ELSE <<5000, 1>>

\* confidence before rounding, lines 206-239, as the fraction <<num, den>>
HeuristicConfidence(p, n) ==
    LET t == p + n
    IN  IF t = 0 THEN <<5000, 1>>
        ELSE IF 2 * p > t
             THEN IF p >= 5 THEN <<8500, 1>>
                  ELSE <<Min(9500 * t, 7000 * t + 2500 * p), t>>
        ELSE IF 2 * p < t THEN <<Min(9500 * t, 5000 * (t - p)), t>>
        ELSE <<5000, 1>>

\* management_tone, lines 245-255
ManagementTone(sentiment, negative_found) ==
    IF sentiment = "positive" /\ Len(negative_found) > 0 THEN "optimistic_cautious"
    ELSE IF sentiment = "positive" THEN "optimistic"
    ELSE IF sentiment = "negative" THEN "cautious_pessimistic"
    ELSE "neutral"

OrList(found, default) == IF Len(found) > 0 THEN found ELSE default

Phrase(cond, phrase) == IF cond THEN <<phrase>> ELSE <<>>

\* key_positive, lines 266-276
KeyPositive(text) ==
    Phrase(In(text, "exceeded") \/ In(text, "expectations"),
           "exceeded expectations across all key metrics")
    \o Phrase(In(text, "cloud") /\ In(text, "strong"),
              "remarkable strength in cloud services")
    \o Phrase(In(text, "ai") \/ In(text, "artificial intelligence"),
              "unprecedented demand for AI solutions")
    \o Phrase(In(text, "cash") /\ In(text, "generation"),
              "strong balance sheet and cash generation")

\* key_negative, lines 279-287
KeyNegative(text) ==
    Phrase(In(text, "hardware")
             /\ (In(text, "decline") \/ In(text, "challenge") \/ In(text, "-2%")),
           "hardware division revenue decline")
    \o Phrase(In(text, "saturation") \/ In(text, "market saturation"),
              "potential market saturation concerns")
    \o Phrase(In(text, "macro") \/ In(text, "uncertainty") \/ In(text, "economic"),
              "macroeconomic uncertainties")

\* risk_factors, lines 290-304
RiskFactors(text) ==
    Phrase(In(text, "competition") \/ In(text, "competitive"),
           "increasing cloud market competition")
    \o Phrase(In(text, "regulatory") \/ In(text, "regulation"), "regulatory scrutiny")
    \o Phrase(In(text, "exchange") \/ In(text, "currency"), "foreign exchange volatility")
    \o Phrase(In(text, "slowdown") \/ In(text, "recession"), "potential economic slowdown")
    \o Phrase(In(text, "security") \/ In(text, "cyber"), "cybersecurity threats")

DefaultKeyPositive ==
    << "exceeded expectations across all key metrics",
       "remarkable strength in cloud services",
       "unprecedented demand for AI solutions",
       "strong balance sheet and cash generation" >>

DefaultKeyNegative ==
    << "hardware division revenue decline",
       "potential market saturation concerns",
       "macroeconomic uncertainties" >>

DefaultRiskFactors ==
    << "increasing cloud market competition", "regulatory scrutiny",
       "foreign exchange volatility", "potential economic slowdown",
       "cybersecurity threats" >>

\* the rounding of the returned confidence, line 308: round(confidence, 2) of the
\* double the lines 206-239 computed. Where the exact value lies midway between two
\* hundredths (the counts 1/3 and 3/9 give 0.375, 9/11 gives 0.275, 7/13 gives
\* 0.325) the double is the midpoint or lies above it, and round goes up.
HeuristicRound(c) == 100 * RoundHalfUp(c[1], 100 * c[2])

\* _analyze_sentiment: the heuristic strategy
AnalyzeSentiment(text) ==
    LET positive_found == KeywordsFound(POSITIVE_KEYWORDS, text)
        negative_found == KeywordsFound(NEGATIVE_KEYWORDS, text)
        p == Len(positive_found)
        n == Len(negative_found)
        sentiment == OverallSentiment(p, n)
    IN  [ overall_sentiment |-> sentiment,
          confidence |-> HeuristicRound(HeuristicConfidence(p, n)),
          management_tone |-> ManagementTone(sentiment, negative_found),
          key_positive_indicators |-> OrList(KeyPositive(text), DefaultKeyPositive),
          key_negative_indicators |-> OrList(KeyNegative(text), DefaultKeyNegative),
          risk_factors_identified |-> OrList(RiskFactors(text), DefaultRiskFactors) ]

(* The answer of llm_client.generate, as far as the code looks at it:        *)
(*   [kind |-> "raise"]            generate raised                            *)
(*   [kind |-> "text"]             a response without any {...} span          *)
(*   [kind |-> "bad_json"]         a {...} span json.loads rejects            *)
(*   [kind |-> "json", data |-> d] a {...} span that parses to the dict d     *)
(* A "confidence" entry of d is [t |-> "num", v |-> x] for a value float()    *)
(* turns into x, [t |-> "nan"], [t |-> "inf"], [t |-> "-inf"] for the JSON    *)
(* constants NaN, Infinity, -Infinity, and [t |-> "bad"] for a value float()  *)
(* raises on (null, a list, a word).                                         *)

\* NormalizeConfidence without the clamp
NormalizeConfidenceUnclamped(c) ==
    IF c.t = "num" THEN Round2(Max(0, c.v), 1)
    ELSE IF c.t = "inf" THEN 10000
    ELSE 0

\* round(min(1.0, max(0.0, float(x))), 2), line 154
NormalizeConfidence(c) ==
    IF c.t = "num" THEN Round2(Min(10000, Max(0, c.v)), 1)
    ELSE IF c.t = "inf" THEN 10000
    ELSE 0   \* max(0.0, nan) and max(0.0, -inf) are 0.0

\* whether the try block of _analyze_sentiment_with_llm raises, lines 137-162
LLMPathRaises(resp) ==
    \/ resp.kind \in {"raise", "text", "bad_json"}
    \/ /\ resp.kind = "json"
       /\ "confidence" \in DOMAIN resp.data
       /\ resp.data["confidence"].t = "bad"

\* _analyze_sentiment_with_llm once generate has answered resp
AnalyzeSentimentWithLLM(text, resp) ==
    IF LLMPathRaises(resp) THEN AnalyzeSentiment(text)
    ELSE IF "confidence" \in DOMAIN resp.data
         THEN Put(resp.data, "confidence", NormalizeConfidence(resp.data["confidence"]))
         ELSE Put(resp.data, "confidence", 7500)

-----------------------------------------------------------------------------
(* DataExtractorAgent (data_extractor.py) *)

\* "if v > 1: v = v / 100", lines 115-116, 143-144, 181-182, 190-191, 212-213, 328-331
Normalize(v) == IF v > 10000 THEN v \div 100 ELSE v

\* "x or default" for a number x that is None when its pattern did not match
OrDefault(matched, v, default) == IF matched /\ v # 0 THEN v ELSE default

\* the normalized rate a pattern matched, 0 standing for None where "or" follows
Rate(text, pat) == IF Match(text, pat) THEN Normalize(Number(text, pat)) ELSE 0

\* financial_metrics["revenue"], lines 98-125
RevenueMetric(text) ==
    [ value |-> Number(text, "revenue"),
      unit |-> "billion USD",
      yoy_change |-> OrDefault(Match(text, "yoy"), Rate(text, "yoy"), 1200),
      trend |-> "positive" ]

\* financial_metrics["net_income"], lines 131-153
NetIncomeMetric(text) ==
    [ value |-> Number(text, "net_income"),
      unit |-> "billion USD",
      yoy_change |->
          OrDefault(Match(text, "net_income_yoy"), Rate(text, "net_income_yoy"), 1800),
      trend |-> "positive" ]

\* financial_metrics["eps"], lines 159-171
EpsMetric(text) ==
    LET analyst_estimate ==
            IF Match(text, "estimate") THEN Number(text, "estimate") ELSE 43000
    IN  [ value |-> Number(text, "eps"),
          analyst_estimate |-> analyst_estimate,
          beat_estimate |-> Number(text, "eps") > analyst_estimate ]

\* financial_metrics["operating_margin"], lines 177-197
MarginMetric(text) ==
    LET current_margin == Normalize(Number(text, "margin"))
        previous_margin == Rate(text, "previous_margin")
    IN  [ current |-> current_margin,
          previous |-> OrDefault(Match(text, "previous_margin"), previous_margin, 2620),
          trend |-> IF previous_margin = 0 \/ current_margin >= previous_margin
                    THEN "improving" ELSE "declining" ]

\* financial_metrics["free_cash_flow"], lines 203-220
CashFlowMetric(text) ==
    [ value |-> Number(text, "cash_flow"),
      unit |-> "billion USD",
      yoy_change |->
          OrDefault(Match(text, "cash_flow_yoy"), Rate(text, "cash_flow_yoy"), 2200) ]

\* the growth rate of a segment: float(match.group(1)) / 100, lines 242, 266, 287
SegmentGrowth(text, pat) == IF Match(text, pat) THEN Number(text, pat) \div 100 ELSE 0

\* segment_performance["cloud_services"], lines 231-252
CloudSegment(text) ==
    [ revenue |-> Number(text, "cloud_revenue"),
      growth_rate |->
          OrDefault(Match(text, "cloud_growth"), SegmentGrowth(text, "cloud_growth"), 3500),
      operating_margin |-> 4200,
      metrics |-> [new_customers |-> 2000, retention_rate |-> 9850] ]

\* segment_performance["software_products"], lines 256-272
SoftwareSegment(text) ==
    [ revenue |-> Number(text, "software_revenue"),
      growth_rate |->
          OrDefault(Match(text, "software_growth"),
                    SegmentGrowth(text, "software_growth"), 800),
      highlights |-> <<"enterprise security suite performance">> ]

\* segment_performance["hardware"], lines 276-293
HardwareSegment(text) ==
    [ revenue |-> Number(text, "hardware_revenue"),
      growth_rate |-> IF Match(text, "hardware_growth")
                      THEN 0 - SegmentGrowth(text, "hardware_growth")
                      ELSE 0 - 200,
      notes |-> "margin improvement despite revenue decline" ]

\* forward_guidance, lines 299-335
ForwardGuidance(text) ==
    [ q4_2024 |->
        [ revenue_range |->
              IF Match(text, "q4_first")
              THEN << Min(Number(text, "q4_first"), Number(text, "q4_second")),
                      Max(Number(text, "q4_first"), Number(text, "q4_second")) >>
              ELSE <<160000, 165000>>,
          eps_range |-> <<47000, 48500>> ],
      full_year_growth |->
          IF Match(text, "full_year_first")
          THEN << Normalize(Number(text, "full_year_first")),
                  Normalize(Number(text, "full_year_second")) >>
          ELSE <<1400, 1500>> ]

\* financial_metrics: a metric is present when its value pattern matched
FinancialMetrics(text) ==
    [ k \in { m \in {"revenue", "net_income", "eps"} : Match(text, m) }
            \cup (IF Match(text, "margin") THEN {"operating_margin"} ELSE {})
            \cup (IF Match(text, "cash_flow") THEN {"free_cash_flow"} ELSE {}) |->
        CASE k = "revenue" -> RevenueMetric(text)
          [] k = "net_income" -> NetIncomeMetric(text)
          [] k = "eps" -> EpsMetric(text)
          [] k = "operating_margin" -> MarginMetric(text)
          [] k = "free_cash_flow" -> CashFlowMetric(text) ]

\* segment_performance: a segment is present when its revenue pattern matched
SegmentPerformance(text) ==
    [ k \in (IF Match(text, "cloud_revenue") THEN {"cloud_services"} ELSE {})
            \cup (IF Match(text, "software_revenue") THEN {"software_products"} ELSE {})
            \cup (IF Match(text, "hardware_revenue") THEN {"hardware"} ELSE {}) |->
        CASE k = "cloud_services" -> CloudSegment(text)
          [] k = "software_products" -> SoftwareSegment(text)
          [] k = "hardware" -> HardwareSegment(text) ]

\* _extract_metrics, lines 78-344
ExtractMetrics(text) ==
    [ financial_metrics |-> FinancialMetrics(text),
      segment_performance |-> SegmentPerformance(text),
      forward_guidance |-> ForwardGuidance(text) ]

-----------------------------------------------------------------------------
(* SummaryAgent (summary.py) *)

\* GrowthScore that also penalises growth below 8 percent
GrowthScoreHarsh(revenue_growth) ==
    IF revenue_growth > 1500 THEN 2
    ELSE IF revenue_growth > 800 THEN 1
    ELSE IF revenue_growth < 800 THEN 0 - 1
    ELSE 0

\* growth_score, lines 199-208
GrowthScore(revenue_growth) ==
    IF revenue_growth > 1500 THEN 2
    ELSE IF revenue_growth > 800 THEN 1
    ELSE IF revenue_growth < 0 THEN -1
    ELSE 0

\* margin_score, lines 214-223
MarginScore(operating_margin) ==
    IF operating_margin > 3000 THEN 2
    ELSE IF operating_margin > 2000 THEN 1
    ELSE IF operating_margin < 1000 THEN -1
    ELSE 0

\* sentiment_score, lines 229-235
SentimentScore(sentiment) ==
    IF sentiment = "positive" THEN 1
    ELSE IF sentiment = "negative" THEN -1
    ELSE 0

\* DetermineRecommendation with the BUY threshold made strict
DetermineRecommendationStrict(revenue_growth, operating_margin, sentiment) ==
    LET total_score == GrowthScore(revenue_growth) + MarginScore(operating_margin)
                         + SentimentScore(sentiment)
    IN  IF total_score > 3 THEN "BUY"
        ELSE IF total_score <= -2 THEN "SELL"
        ELSE "HOLD"

\* _determine_recommendation, lines 176-252
DetermineRecommendation(revenue_growth, operating_margin, sentiment) ==
    LET total_score == GrowthScore(revenue_growth) + MarginScore(operating_margin)
                         + SentimentScore(sentiment)
    IN  IF total_score >= 3 THEN "BUY"
        ELSE IF total_score <= -2 THEN "SELL"
        ELSE "HOLD"

\* headline, lines 136-143
Headline(overall_sentiment, revenue_yoy) ==
    IF overall_sentiment = "positive" /\ revenue_yoy > 1000
    THEN "Strong Q3 Performance Driven by Cloud and AI Growth"
    ELSE IF overall_sentiment = "positive"
    THEN "Positive Q3 Results with Resilient Performance"
    ELSE IF overall_sentiment = "negative" THEN "Q3 Challenges Amid Market Headwinds"
    ELSE "Q3 Results Show Mixed Performance"

\* OverallConfidence with the two weights exchanged
OverallConfidenceSwapped(sentiment_confidence, operating_margin) ==
    Round2(6 * sentiment_confidence + 7 * Min(19000, 6000 + 3 * operating_margin), 20)

\* The pairs <<sentiment_confidence, twice margin_confidence>> whose exact blend lies
\* midway between two hundredths and whose double lies above the midpoint, so that
\* round goes up; at the other midpoints the double lies below and round goes down.
\* The pairs cover the confidences of two decimals and the margins 0, 0.05, 0.1, 0.2,
\* 0.285, 0.3 and those that reach the cap.
MidpointRoundsUp ==
    { <<0, 9000>>, <<500, 12000>>, <<1000, 9000>>, <<1500, 6000>>, <<1500, 12000>>,
      <<2000, 9000>>, <<2500, 6000>>, <<4500, 6000>>, <<5000, 19000>>, <<5500, 12000>>,
      <<6000, 15000>>, <<6500, 12000>>, <<8500, 12000>>, <<9000, 9000>>, <<9000, 19000>> }

\* round(sentiment_confidence * 0.7 + min(0.95, 0.3 + margin * 1.5) * 0.3, 2),
\* lines 128-130 and 173; twice the margin confidence is min(1.9, 0.6 + 3 * margin)
OverallConfidence(sentiment_confidence, operating_margin) ==
    LET mc2 == Min(19000, 6000 + 3 * operating_margin)
        num == 14 * sentiment_confidence + 3 * mc2
    IN  IF num % 2000 # 1000 THEN Round2(num, 20)
        ELSE IF <<sentiment_confidence, mc2>> \in MidpointRoundsUp
             THEN (num + 1000) \div 20
             ELSE (num - 1000) \div 20

\* int(x * 100) of a fraction x
Percent(x) == x \div 100

\* the narrative, lines 149-167, as the template chosen and the values it is filled with
Narrative(financial_data, cloud, overall_sentiment) ==
    IF "value" \in DOMAIN Get(financial_data, "revenue", EmptyDict)
       /\ "value" \in DOMAIN Get(financial_data, "net_income", EmptyDict)
    THEN LET margin_pct ==
                 Percent(Get(Get(financial_data, "operating_margin", EmptyDict), "current", 0))
         IN  [ template |-> "metrics",
               revenue_pct |-> Percent(Get(financial_data["revenue"], "yoy_change", 0)),
               revenue |-> financial_data["revenue"]["value"],
               net_income_pct |-> Percent(Get(financial_data["net_income"], "yoy_change", 0)),
               net_income |-> financial_data["net_income"]["value"],
               cloud_growth_pct |->
                   IF "revenue" \in DOMAIN cloud /\ Get(cloud, "growth_rate", 0) > 0
                   THEN <<Percent(Get(cloud, "growth_rate", 0))>> ELSE <<>>,
               margins |-> IF margin_pct > 25 THEN "improved to" ELSE "remained at",
               margin_pct |-> margin_pct,
               outlook |-> IF overall_sentiment = "positive"
                           THEN "cautiously optimistic" ELSE "cautious" ]
    ELSE [ template |-> "fallback" ]

\* the data the summary is computed from, execute lines 46-47 and _generate_summary
\* line 109
FinancialData(d) == Get(d, "financial_metrics", Get(d, "financial_data", EmptyDict))
SentimentData(d) == Get(d, "sentiment_analysis", Get(d, "sentiment_data", EmptyDict))
SegmentPerf(input_data, financial_data) ==
    Get(input_data, "segment_performance",
        Get(financial_data, "segment_performance", EmptyDict))

\* _generate_summary, lines 69-174
GenerateSummary(input_data, financial_data, sentiment_data) ==
    LET revenue_yoy == Get(Get(financial_data, "revenue", EmptyDict), "yoy_change", 0)
        operating_margin ==
            Get(Get(financial_data, "operating_margin", EmptyDict), "current", 0)
        overall_sentiment == Get(sentiment_data, "overall_sentiment", "neutral")
        segment_perf == SegmentPerf(input_data, financial_data)
        cloud == Get(segment_perf, "cloud_services", EmptyDict)
        sentiment_confidence == Get(sentiment_data, "confidence", 5000)
    IN  [ headline |-> Headline(overall_sentiment, revenue_yoy),
          summary |-> Narrative(financial_data, cloud, overall_sentiment),
          recommendation |->
              DetermineRecommendation(revenue_yoy, operating_margin, overall_sentiment),
          confidence_score |-> OverallConfidence(sentiment_confidence, operating_margin) ]

-----------------------------------------------------------------------------
(* CoordinatorAgent (coordinator.py) *)

FailedResult(name, errors) == AgentResult(name, "failed", EmptyDict, errors)

\* what execute did: returned a result, or raised; context is the context it leaves
Returned(result, context) ==
    [raised |-> FALSE, msg |-> "", result |-> result, context |-> context]
Raised(msg, context) ==
    [raised |-> TRUE, msg |-> msg, result |-> FailedResult("", <<>>), context |-> context]

\* CoordinatorAgent.execute, lines 68-138; file is what open(report_path).read() does:
\* [ok |-> TRUE, text |-> t] or [ok |-> FALSE, msg |-> m]
CoordinatorExecute(d, context, file) ==
    IF "report_content" \notin DOMAIN d /\ "report_path" \in DOMAIN d /\ ~file.ok
    THEN Returned(FailedResult("coordinator",
                               <<"Failed to read report file: " \o file.msg>>), context)
    ELSE IF "report_content" \notin DOMAIN d /\ "report_path" \notin DOMAIN d
    THEN Returned(FailedResult("coordinator",
                               <<"No report_path or report_content provided">>), context)
    ELSE LET report_content ==
                 IF "report_content" \in DOMAIN d THEN d["report_content"] ELSE file.text
             seeded == Put(Put(context, "report_content", report_content),
                           "workflow_initiated_by", "coordinator")
         IN  IF ~IsString(report_content)
             THEN \* len(report_content) raises inside the try block
                  Returned(FailedResult("coordinator",
                      <<"Coordination error: object of type 'NoneType' has no len()">>),
                      seeded)
             ELSE Returned(
                      AgentResult("coordinator", "success",
                          [ coordination_status |-> "ready",
                            execution_plan |->
                              [ agents_to_execute |-> << "data_extractor",
                                    "sentiment_analyzer", "summary_generator" >>,
                                report_length |-> report_content.len,
                                initialized_at |-> Get(context, "timestamp", "unknown") ] ],
                          <<>>),
                      seeded)

-----------------------------------------------------------------------------
(* The execute method of the other agents *)

\* context.get("report_content") or input_data.get("report_content", "")
ReportContent(d, context) ==
    LET c == Get(context, "report_content", EmptyText)
    IN  IF ~Falsy(c) THEN c ELSE Get(d, "report_content", EmptyText)

\* DataExtractorExecute without the check for missing content
DataExtractorExecuteUnchecked(d, context) ==
    Returned(AgentResult("data_extractor", "success",
                         ExtractMetrics(IF IsString(ReportContent(d, context))
                                        THEN ReportContent(d, context) ELSE EmptyText),
                         <<>>), context)

\* DataExtractorAgent.execute, data_extractor.py lines 37-76
DataExtractorExecute(d, context) ==
    IF Falsy(ReportContent(d, context))
    THEN Returned(FailedResult("data_extractor",
                               <<"No report content available for extraction">>), context)
    ELSE Returned(AgentResult("data_extractor", "success",
                              ExtractMetrics(ReportContent(d, context)), <<>>), context)

\* whether SentimentAnalysisAgent.execute reaches the await of llm_client.generate
CallsLLM(d, context, has_llm) == has_llm /\ ~Falsy(ReportContent(d, context))

\* SentimentAnalysisAgent.execute, sentiment.py lines 50-101
SentimentExecute(d, context, has_llm, resp) ==
    IF Falsy(ReportContent(d, context))
    THEN Returned(FailedResult("sentiment_analyzer",
                      <<"No report content available for sentiment analysis">>), context)
    ELSE Returned(AgentResult("sentiment_analyzer", "success",
                      IF has_llm
                      THEN AnalyzeSentimentWithLLM(ReportContent(d, context), resp)
                      ELSE AnalyzeSentiment(ReportContent(d, context)),
                      <<>>), context)

\* SummaryAgent.execute, summary.py lines 35-67
SummaryExecute(d, context) ==
    LET financial_data == FinancialData(d)
        sentiment_data == SentimentData(d)
    IN  Returned(AgentResult("summary_generator", "success",
                             GenerateSummary(d, financial_data, sentiment_data), <<>>),
                 context)

\* ExampleAgent.execute, base.py lines 155-177
ExampleExecute(d, context) ==
    Returned(AgentResult("example_agent", "success",
                         [processed |-> TRUE, input |-> d, agent |-> "example_agent"],
                         <<>>), context)

\* BaseAgent.execute is abstract, base.py lines 86-100: the execute of any other
\* subclass returns a result or raises; body says which
SubclassExecute(name, d, context, body) ==
    IF body.kind = "raise" THEN Raised(body.msg, context)
    ELSE Returned(AgentResult(name, body.kind, body.data, body.errors), context)

\* what the world does during one execute: the file read, the llm answer, and the
\* body of a further subclass
Execute(s, d, context, has_llm, env) ==
    CASE s = "coordinator" -> CoordinatorExecute(d, context, env.file)
      [] s = "data_extractor" -> DataExtractorExecute(d, context)
      [] s = "sentiment_analyzer" -> SentimentExecute(d, context, has_llm, env.llm)
      [] s = "summary_generator" -> SummaryExecute(d, context)
      [] s = "example_agent" -> ExampleExecute(d, context)
      [] OTHER -> SubclassExecute(s, d, context, env.body)

-----------------------------------------------------------------------------
(* BaseAgent (base.py) *)

\* BaseAgent.validate_input, lines 69-84
BaseValidateInput(input) == input.kind # "none" /\ input.kind = "dict"

\* CoordinatorAgent.validate_input, coordinator.py lines 49-66
CoordinatorValidateInput(input) ==
    /\ BaseValidateInput(input)
    /\ ("report_path" \in DOMAIN input.d \/ "report_content" \in DOMAIN input.d)

ValidateInput(s, input) ==
    IF s = "coordinator" THEN CoordinatorValidateInput(input) ELSE BaseValidateInput(input)

\* process when validate_input rejects the input, lines 114-122: st is the status
\* field, which the code leaves as it is
ProcessRejected(s, context, st) ==
    [ raised |-> FALSE, msg |-> "",
      result |-> FailedResult(s, <<"Invalid input data for " \o s>>),
      context |-> context, status |-> st, executed |-> FALSE ]

\* ProcessEnd without the except clause: the fault leaves process
ProcessEndPropagates(s, out) ==
    IF out.raised
    THEN [ raised |-> TRUE, msg |-> out.msg,
           result |-> FailedResult(s, <<>>),
           context |-> out.context, status |-> "running", executed |-> TRUE ]
    ELSE [ raised |-> FALSE, msg |-> "",
           result |-> out.result,
           context |-> out.context, status |-> out.result.status, executed |-> TRUE ]

\* ProcessEnd marking a stage whose execute raised for another attempt
ProcessEndRetries(s, out) ==
    IF out.raised
    THEN [ raised |-> FALSE, msg |-> "",
           result |-> FailedResult(s, <<out.msg>>),
           context |-> out.context, status |-> "retry", executed |-> TRUE ]
    ELSE [ raised |-> FALSE, msg |-> "",
           result |-> out.result,
           context |-> out.context, status |-> out.result.status, executed |-> TRUE ]

\* process from the return of execute on, lines 129-140
ProcessEnd(s, out) ==
    IF out.raised
    THEN [ raised |-> FALSE, msg |-> "",
           result |-> FailedResult(s, <<out.msg>>),
           context |-> out.context, status |-> "failed", executed |-> TRUE ]
    ELSE [ raised |-> FALSE, msg |-> "",
           result |-> out.result,
           context |-> out.context, status |-> out.result.status, executed |-> TRUE ]

\* Process that refuses to run a stage whose last call failed until it is reset
ProcessLatched(s, input, context, st, has_llm, env) ==
    IF st = "failed" \/ ~ValidateInput(s, input) THEN ProcessRejected(s, context, st)
    ELSE ProcessEnd(s, Execute(s, input.d, context, has_llm, env))

\* Process checking the input with the base class's validate_input only
ProcessBaseValidation(s, input, context, st, has_llm, env) ==
    IF ~BaseValidateInput(input) THEN ProcessRejected(s, context, st)
    ELSE ProcessEnd(s, Execute(s, input.d, context, has_llm, env))

\* BaseAgent.process run without suspension, lines 102-140
Process(s, input, context, st, has_llm, env) ==
    IF ~ValidateInput(s, input) THEN ProcessRejected(s, context, st)
    ELSE ProcessEnd(s, Execute(s, input.d, context, has_llm, env))

-----------------------------------------------------------------------------
(* WorkflowGraph (graph.py) and process_earnings_report (main.py) *)

\* the state invoke starts from, lines 175-185
InitialState(report_content, options) ==
    [ report_content |-> report_content,
      report_metadata |-> options,
      financial_metrics |-> EmptyDict,
      segment_performance |-> EmptyDict,
      forward_guidance |-> EmptyDict,
      sentiment_analysis |-> EmptyDict,
      executive_summary |-> EmptyDict,
      metadata |-> EmptyDict,
      errors |-> <<>> ]

\* AppendError that keeps the latest entry only
AppendErrorReplacing(st, e) == [st EXCEPT !["errors"] = <<e>>]

\* state["errors"].append(e)
AppendError(st, e) == [st EXCEPT !["errors"] = Append(@, e)]

\* NextNode with the edge out of sentiment_analysis leading to the end of the graph
NextNodeHalts(node) ==
    CASE node = "coordinator" -> "data_extraction"
      [] node = "data_extraction" -> "sentiment_analysis"
      [] node = "sentiment_analysis" -> "END"
      [] node = "summary_generation" -> "END"

\* NextNode with the edge out of data_extraction leading past sentiment_analysis
NextNodeSkips(node) ==
    CASE node = "coordinator" -> "data_extraction"
      [] node = "data_extraction" -> "summary_generation"
      [] node = "sentiment_analysis" -> "summary_generation"
      [] node = "summary_generation" -> "END"

\* the edges of the graph, _build_graph lines 61-67
NextNode(node) ==
    CASE node = "coordinator" -> "data_extraction"
      [] node = "data_extraction" -> "sentiment_analysis"
      [] node = "sentiment_analysis" -> "summary_generation"
      [] node = "summary_generation" -> "END"

EntryPoint == "coordinator"

\* _coordinator_node, lines 72-81
CoordinatorNodeUpdate(st) ==
    Put(st, "metadata",
        [ status |-> "initialized",
          agents |-> << "coordinator", "data_extractor", "sentiment_analyzer",
                        "summary_generator" >> ])

\* the inputs the nodes hand to process, lines 90, 116 and 140-144
ExtractionInput(st) == [kind |-> "dict", d |-> [report_content |-> st["report_content"]]]
SentimentInput(st) == [kind |-> "dict", d |-> [report_content |-> st["report_content"]]]
SummaryInput(st) ==
    [ kind |-> "dict",
      d |-> [ financial_metrics |-> st["financial_metrics"],
              sentiment_analysis |-> st["sentiment_analysis"],
              metadata |-> Get(st, "metadata", EmptyDict) ] ]

\* DataExtractionUpdate that fills in the default guidance when the stage failed
DataExtractionUpdateDefaults(st, out) ==
    IF out.raised THEN AppendError(st, "Data extraction error: " \o out.msg)
    ELSE IF out.result.status = "success"
    THEN [ st EXCEPT
             !["financial_metrics"] = Get(out.result.data, "financial_metrics", EmptyDict),
             !["segment_performance"] =
                 Get(out.result.data, "segment_performance", EmptyDict),
             !["forward_guidance"] = Get(out.result.data, "forward_guidance", EmptyDict) ]
    ELSE [ AppendError(st, "Data extraction failed: " \o FormatList(out.result.errors))
             EXCEPT !["forward_guidance"] = ForwardGuidance(EmptyText) ]

\* DataExtractionUpdate that only logs a failure
DataExtractionUpdateSilent(st, out) ==
    IF ~out.raised /\ out.result.status = "success"
    THEN [ st EXCEPT
             !["financial_metrics"] = Get(out.result.data, "financial_metrics", EmptyDict),
             !["segment_performance"] =
                 Get(out.result.data, "segment_performance", EmptyDict),
             !["forward_guidance"] = Get(out.result.data, "forward_guidance", EmptyDict) ]
    ELSE st

\* _data_extraction_node after process, lines 94-105; out is what process did
DataExtractionUpdate(st, out) ==
    IF out.raised THEN AppendError(st, "Data extraction error: " \o out.msg)
    ELSE IF out.result.status = "success"
    THEN [ st EXCEPT
             !["financial_metrics"] = Get(out.result.data, "financial_metrics", EmptyDict),
             !["segment_performance"] =
                 Get(out.result.data, "segment_performance", EmptyDict),
             !["forward_guidance"] = Get(out.result.data, "forward_guidance", EmptyDict) ]
    ELSE AppendError(st, "Data extraction failed: " \o FormatList(out.result.errors))

\* SentimentUpdate that only logs a failure
SentimentUpdateSilent(st, out) ==
    IF ~out.raised /\ out.result.status = "success"
    THEN [st EXCEPT !["sentiment_analysis"] = out.result.data]
    ELSE st

\* _sentiment_analysis_node after process, lines 120-129
SentimentUpdate(st, out) ==
    IF out.raised THEN AppendError(st, "Sentiment analysis error: " \o out.msg)
    ELSE IF out.result.status = "success"
    THEN [st EXCEPT !["sentiment_analysis"] = out.result.data]
    ELSE AppendError(st, "Sentiment analysis failed: " \o FormatList(out.result.errors))

\* _summary_generation_node after process, lines 148-157
SummaryUpdate(st, out) ==
    IF out.raised THEN AppendError(st, "Summary generation error: " \o out.msg)
    ELSE IF out.result.status = "success"
    THEN [st EXCEPT !["executive_summary"] = out.result.data]
    ELSE AppendError(st, "Summary generation failed: " \o FormatList(out.result.errors))

\* Aggregate copying only the entries of the final state that hold something
AggregateNonEmpty(workflow_result) ==
    [ k \in { f \in { "financial_metrics", "segment_performance", "forward_guidance",
                      "sentiment_analysis", "executive_summary" } :
                 Get(workflow_result, f, EmptyDict) # EmptyDict } \cup {"errors"} |->
        workflow_result[k] ]

\* the result of process_earnings_report, main.py lines 194-205 (the analysis id and
\* the clock readings are left out)
Aggregate(workflow_result) ==
    [ agents_executed |-> << "coordinator", "data_extractor", "sentiment_analyzer",
                             "summary_generator" >>,
      financial_metrics |-> Get(workflow_result, "financial_metrics", EmptyDict),
      segment_performance |-> Get(workflow_result, "segment_performance", EmptyDict),
      forward_guidance |-> Get(workflow_result, "forward_guidance", EmptyDict),
      sentiment_analysis |-> Get(workflow_result, "sentiment_analysis", EmptyDict),
      executive_summary |-> Get(workflow_result, "executive_summary", EmptyDict),
      errors |-> Get(workflow_result, "errors", <<>>) ]

-----------------------------------------------------------------------------
(* The inputs the model draws from *)

\* a text in which the first p positive and the first n negative keywords occur
KeywordText(p, n) ==
    [ len |-> 1 + p + n,
      words |-> { POSITIVE_KEYWORDS[i] : i \in 1..p } \cup { NEGATIVE_KEYWORDS[i] : i \in 1..n },
      nums |-> EmptyDict ]

KeywordTexts == { KeywordText(p, n) : p \in 0..Len(POSITIVE_KEYWORDS),
                                      n \in 0..Len(NEGATIVE_KEYWORDS) }

\* a report in the style of the sample: $15.2 billion revenue, YoY: 12%, net income
\* $3.8 billion, operating margin 28.5%, cloud $6.8 billion with 35% growth
SampleText ==
    [ len |-> 2000,
      words |-> { "exceeded", "expectations", "remarkable", "unprecedented", "strong",
                  "growth", "record", "cloud", "ai", "cash", "generation", "hardware",
                  "decline", "challenge", "uncertainty", "competition", "regulatory" },
      nums |-> [ revenue |-> 152000, yoy |-> 120000, net_income |-> 38000,
                 margin |-> 285000, cloud_revenue |-> 68000, cloud_growth |-> 350000 ] ]

\* a report with a bleak tone and no figure the extractor recognises
BleakText ==
    [ len |-> 300,
      words |-> { "decline", "risk", "weak", "pressure", "growth", "recession" },
      nums |-> EmptyDict ]

PipelineTexts == { EmptyText, SampleText, BleakText }

\* the sentiment answer of MockLLMClient.generate, llm_client.py lines 191-209
MockSentiment ==
    [ overall_sentiment |-> "positive",
      confidence |-> [t |-> "num", v |-> 8500],
      management_tone |-> "optimistic_cautious",
      key_positive_indicators |->
          << "exceeded expectations", "remarkable cloud growth", "strong cash generation" >>,
      key_negative_indicators |-> << "hardware decline", "competition increasing" >>,
      risk_factors_identified |->
          << "market competition", "regulatory scrutiny", "economic uncertainty" >> ]

ConfidenceValues ==
    { [t |-> "num", v |-> x] : x \in { 0 - 2500, 0, 4, 8449, 8500, 8551, 9999, 10000, 12000 } }
    \cup { [t |-> "nan"], [t |-> "inf"], [t |-> "-inf"], [t |-> "bad"] }

\* a dict without key
Without(d, key) == [k \in DOMAIN d \ {key} |-> d[k]]

\* the objects an answer may parse to: the expected shape with any confidence or
\* none, and objects of another shape
LLMObjects ==
    { Put(MockSentiment, "confidence", c) : c \in ConfidenceValues }
    \cup { Without(MockSentiment, "confidence"),
           [foo |-> 1],
           [overall_sentiment |-> "negative", confidence |-> [t |-> "num", v |-> 9000]] }

LLMResponses ==
    { [kind |-> "raise"], [kind |-> "text"], [kind |-> "bad_json"] }
    \cup { [kind |-> "json", data |-> d] : d \in LLMObjects }

\* the answers drawn in pipeline runs
PipelineResponses ==
    { [kind |-> "raise"],
      [kind |-> "json", data |-> MockSentiment],
      [kind |-> "json", data |-> [foo |-> 1]] }

NoEnv ==
    [ file |-> [ok |-> FALSE, msg |-> ""],
      llm |-> [kind |-> "raise"],
      body |-> [kind |-> "raise", msg |-> ""] ]

-----------------------------------------------------------------------------
(* Pipeline runs *)

NoCall == [stage |-> "none"]
NoArg == [kind |-> "none"]

InitCommon ==
    /\ status = [s \in AllStages \cup {"custom_agent"} |-> "ready"]
    /\ state = [s \in AllStages \cup {"custom_agent"} |-> EmptyDict]
    /\ pc = [r \in Runs |-> "idle"]
    /\ ctx = [r \in Runs |-> EmptyDict]
    /\ results = [r \in Runs |-> EmptyDict]
    /\ trace = [r \in Runs |-> <<>>]
    /\ aggregate = [r \in Runs |-> EmptyDict]
    /\ call = NoCall

\* initialize_agents and setup_langgraph_workflow have run, main.py lines 78-150
Init ==
    /\ InitCommon
    /\ llm_client \in BOOLEAN
    /\ arg = NoArg

Enter(node) == <<"enter", node>>
Return(node) == <<"return", node>>

\* Invoke keeping one state dict for all runs: a later run starts from what the run
\* before it has written so far
InvokeReusingState(r, report_content) ==
    /\ pc[r] = "idle"
    /\ r > 1 => pc[r - 1] # "idle"
    /\ ctx' = [ctx EXCEPT ![r] = IF r > 1
                                 THEN [ctx[r - 1] EXCEPT !["report_content"] = report_content]
                                 ELSE InitialState(report_content, EmptyDict)]
    /\ pc' = [pc EXCEPT ![r] = EntryPoint]
    /\ UNCHANGED <<status, results, trace, aggregate, llm_client, state, arg, call>>

\* WorkflowGraph.invoke up to the first node, graph.py lines 161-189; runs are
\* numbered in the order they are invoked
Invoke(r, report_content) ==
    /\ pc[r] = "idle"
    /\ r > 1 => pc[r - 1] # "idle"
    /\ ctx' = [ctx EXCEPT ![r] = InitialState(report_content, EmptyDict)]
    /\ pc' = [pc EXCEPT ![r] = EntryPoint]
    /\ UNCHANGED <<status, results, trace, aggregate, llm_client, state, arg, call>>

\* _coordinator_node
CoordinatorNode(r) ==
    /\ pc[r] = "coordinator"
    /\ ctx' = [ctx EXCEPT ![r] = CoordinatorNodeUpdate(@)]
    /\ trace' = [trace EXCEPT ![r] = @ \o <<Enter("coordinator"), Return("coordinator")>>]
    /\ pc' = [pc EXCEPT ![r] = NextNode("coordinator")]
    /\ UNCHANGED <<status, results, aggregate, llm_client, state, arg, call>>

\* a node whose call of process runs to its end without suspension
RunNode(r, node, s, input, out, updated) ==
    /\ status' = [status EXCEPT ![s] = out.status]
    /\ results' = [results EXCEPT ![r] = Put(@, s, out.result)]
    /\ ctx' = [ctx EXCEPT ![r] = updated]
    /\ trace' = [trace EXCEPT ![r] = @ \o <<Enter(node), Return(node)>>]
    /\ pc' = [pc EXCEPT ![r] = NextNode(node)]
    /\ UNCHANGED <<aggregate, llm_client, state, arg, call>>

\* _data_extraction_node, lines 83-107
DataExtractionNode(r) ==
    /\ pc[r] = "data_extraction"
    /\ LET out == Process("data_extractor", ExtractionInput(ctx[r]), ctx[r],
                          status["data_extractor"], llm_client, NoEnv)
       IN  RunNode(r, "data_extraction", "data_extractor", ExtractionInput(ctx[r]), out,
                   DataExtractionUpdate(out.context, out))

\* _sentiment_analysis_node when execute does not reach the llm call, lines 109-131
SentimentNode(r) ==
    /\ pc[r] = "sentiment_analysis"
    /\ ~(ValidateInput("sentiment_analyzer", SentimentInput(ctx[r]))
         /\ CallsLLM(SentimentInput(ctx[r]).d, ctx[r], llm_client))
    /\ LET out == Process("sentiment_analyzer", SentimentInput(ctx[r]), ctx[r],
                          status["sentiment_analyzer"], llm_client, NoEnv)
       IN  RunNode(r, "sentiment_analysis", "sentiment_analyzer", SentimentInput(ctx[r]),
                   out, SentimentUpdate(out.context, out))

\* the status process sets before execute, base.py line 125
ProcessBegin(st) == "running"

\* _sentiment_analysis_node up to the await of llm_client.generate, sentiment.py line 137
SentimentCallLLM(r) ==
    /\ pc[r] = "sentiment_analysis"
    /\ ValidateInput("sentiment_analyzer", SentimentInput(ctx[r]))
    /\ CallsLLM(SentimentInput(ctx[r]).d, ctx[r], llm_client)
    /\ status' = [status EXCEPT !["sentiment_analyzer"] = ProcessBegin(@)]
    /\ trace' = [trace EXCEPT ![r] = Append(@, Enter("sentiment_analysis"))]
    /\ pc' = [pc EXCEPT ![r] = "awaiting_llm"]
    /\ UNCHANGED <<ctx, results, aggregate, llm_client, state, arg, call>>

\* _sentiment_analysis_node from the answer of llm_client.generate on
SentimentResume(r, resp) ==
    /\ pc[r] = "awaiting_llm"
    /\ LET out == ProcessEnd("sentiment_analyzer",
                      Execute("sentiment_analyzer", SentimentInput(ctx[r]).d, ctx[r],
                              llm_client, [NoEnv EXCEPT !.llm = resp]))
       IN  /\ status' = [status EXCEPT !["sentiment_analyzer"] = out.status]
           /\ results' = [results EXCEPT ![r] = Put(@, "sentiment_analyzer", out.result)]
           /\ ctx' = [ctx EXCEPT ![r] = SentimentUpdate(out.context, out)]
    /\ trace' = [trace EXCEPT ![r] = Append(@, Return("sentiment_analysis"))]
    /\ pc' = [pc EXCEPT ![r] = NextNode("sentiment_analysis")]
    /\ UNCHANGED <<aggregate, llm_client, state, arg, call>>

\* _summary_generation_node, lines 133-159
SummaryNode(r) ==
    /\ pc[r] = "summary_generation"
    /\ LET out == Process("summary_generator", SummaryInput(ctx[r]), ctx[r],
                          status["summary_generator"], llm_client, NoEnv)
       IN  RunNode(r, "summary_generation", "summary_generator", SummaryInput(ctx[r]), out,
                   SummaryUpdate(out.context, out))

\* the graph has reached END: invoke returns the final state and
\* process_earnings_report builds its result, graph.py lines 189-191, main.py 188-208
Finish(r) ==
    /\ pc[r] = "END"
    /\ aggregate' = [aggregate EXCEPT ![r] = Aggregate(ctx[r])]
    /\ pc' = [pc EXCEPT ![r] = "done"]
    /\ UNCHANGED <<status, ctx, results, trace, llm_client, state, arg, call>>

Next ==
    \E r \in Runs :
        \/ \E t \in PipelineTexts : Invoke(r, t)
        \/ CoordinatorNode(r)
        \/ DataExtractionNode(r)
        \/ SentimentNode(r)
        \/ SentimentCallLLM(r)
        \/ \E resp \in LLMResponses : SentimentResume(r, resp)
        \/ SummaryNode(r)
        \/ Finish(r)

Spec == Init /\ [][Next]_vars

-----------------------------------------------------------------------------
(* Direct use of the stage instances, as the unit tests do *)

DirectStages == AllStages \cup {"custom_agent"}

\* values handed to process as input_data
DirectInputs ==
    { [kind |-> "none"], [kind |-> "str"], [kind |-> "list"] }
    \cup { [kind |-> "dict", d |-> d] :
             d \in { EmptyDict,
                     [key |-> "value"],
                     [report_content |-> SampleText],
                     [report_content |-> EmptyText],
                     [report_content |-> NoneValue],
                     [report_path |-> "report.txt"],
                     [ financial_metrics |-> FinancialMetrics(SampleText),
                       sentiment_analysis |-> AnalyzeSentiment(SampleText) ] } }

DirectContexts == { EmptyDict, [report_content |-> BleakText] }

\* what the world may do during a direct call of process on stage s
DirectEnvs(s) ==
    CASE s = "coordinator" ->
            { [NoEnv EXCEPT !.file = f] :
                f \in { [ok |-> TRUE, text |-> SampleText],
                        [ok |-> FALSE,
                         msg |-> "[Errno 2] No such file or directory: 'report.txt'"] } }
      [] s = "sentiment_analyzer" -> { [NoEnv EXCEPT !.llm = a] : a \in PipelineResponses }
      [] s = "custom_agent" ->
            { [NoEnv EXCEPT !.body = b] :
                b \in { [kind |-> "success", data |-> [answer |-> "ok"], errors |-> <<>>],
                        [kind |-> "failed", data |-> EmptyDict,
                         errors |-> <<"first problem", "second problem">>],
                        [kind |-> "raise", msg |-> "division by zero"] } }
      [] OTHER -> { NoEnv }

\* a test constructs one stage instance and uses it
InitStage ==
    /\ InitCommon
    /\ llm_client \in BOOLEAN
    /\ arg \in { [kind |-> "stage", stage |-> s] : s \in DirectStages }

\* await agent.process(input, context)
DirectProcess(s, input, context, env) ==
    LET out == Process(s, input, context, status[s], llm_client, env)
    IN  /\ status' = [status EXCEPT ![s] = out.status]
        /\ call' = [ stage |-> s, input |-> input, context |-> context, env |-> env,
                     status_before |-> status[s], out |-> out ]
        /\ UNCHANGED <<pc, ctx, results, trace, aggregate, llm_client, state, arg>>

\* BaseAgent.update_state, base.py lines 56-58
UpdateState(s, key, value) ==
    /\ state' = [state EXCEPT ![s] = Put(@, key, value)]
    /\ UNCHANGED <<status, pc, ctx, results, trace, aggregate, llm_client, arg, call>>

\* Reset that sets the status and keeps the state mapping
ResetKeepsState(s) ==
    /\ status' = [status EXCEPT ![s] = "ready"]
    /\ UNCHANGED <<pc, ctx, results, trace, aggregate, llm_client, state, arg, call>>

\* BaseAgent.reset, base.py lines 64-67
Reset(s) ==
    /\ status' = [status EXCEPT ![s] = "ready"]
    /\ state' = [state EXCEPT ![s] = EmptyDict]
    /\ UNCHANGED <<pc, ctx, results, trace, aggregate, llm_client, arg, call>>

NextStage ==
    \/ \E input \in DirectInputs, context \in DirectContexts, env \in DirectEnvs(arg.stage) :
           DirectProcess(arg.stage, input, context, env)
    \/ \E value \in {"value", "other"} : UpdateState(arg.stage, "key", value)
    \/ Reset(arg.stage)

SpecStage == InitStage /\ [][NextStage]_vars

-----------------------------------------------------------------------------
(* The Sentiment Scorer on its own, over every count of keywords *)

SentimentArgs ==
    { [text |-> t, has_llm |-> FALSE, resp |-> NoEnv.llm] :
        t \in KeywordTexts \cup {SampleText} }
    \cup { [text |-> t, has_llm |-> TRUE, resp |-> a] :
             t \in KeywordTexts \cup {SampleText}, a \in LLMResponses }

InitSentiment ==
    /\ InitCommon
    /\ arg \in SentimentArgs
    /\ llm_client = arg.has_llm

\* await SentimentAnalysisAgent(llm_client).process({"report_content": text}, {})
ScoreSentiment ==
    /\ call = NoCall
    /\ DirectProcess("sentiment_analyzer",
                     [kind |-> "dict", d |-> [report_content |-> arg.text]],
                     EmptyDict, [NoEnv EXCEPT !.llm = arg.resp])

NextSentiment == ScoreSentiment

SpecSentiment == InitSentiment /\ [][NextSentiment]_vars

-----------------------------------------------------------------------------
(* The Recommendation Synthesizer on its own *)

\* a key of the input that is absent, or present with value x
Absent == [has |-> FALSE]
Present(x) == [has |-> TRUE, v |-> x]
Options(values) == { Present(x) : x \in values } \cup {Absent}

GrowthValues == { 0 - 500, 0, 800, 801, 1500, 1501, 3500 }
MarginValues == { 500, 1000, 1001, 2000, 2001, 2850, 3000, 3001, 4500 }
SentimentValues == { "positive", "negative", "neutral" }
SummaryConfidences == { 0, 5000, 8500, 10000 }

\* the financial_metrics and sentiment_analysis a summary is made from
SummaryArgs ==
    { [ growth |-> g, margin |-> m, sentiment |-> st, confidence |-> c ] :
        g \in Options(GrowthValues),
        m \in Options(MarginValues),
        st \in Options(SentimentValues),
        c \in Options(SummaryConfidences) }

FinancialOf(a) ==
    [ k \in (IF a.growth.has THEN {"revenue"} ELSE {})
            \cup (IF a.margin.has THEN {"operating_margin"} ELSE {}) |->
        IF k = "revenue" THEN [yoy_change |-> a.growth.v] ELSE [current |-> a.margin.v] ]

SentimentOf(a) ==
    [ k \in (IF a.sentiment.has THEN {"overall_sentiment"} ELSE {})
            \cup (IF a.confidence.has THEN {"confidence"} ELSE {}) |->
        IF k = "overall_sentiment" THEN a.sentiment.v ELSE a.confidence.v ]

InitSummary ==
    /\ InitCommon
    /\ arg \in SummaryArgs
    /\ llm_client = FALSE

\* await SummaryAgent().process({"financial_metrics": ..., "sentiment_analysis": ...}, {})
Summarize ==
    /\ call = NoCall
    /\ DirectProcess("summary_generator",
                     [ kind |-> "dict",
                       d |-> [ financial_metrics |-> FinancialOf(arg),
                               sentiment_analysis |-> SentimentOf(arg) ] ],
                     EmptyDict, NoEnv)

NextSummary == Summarize

SpecSummary == InitSummary /\ [][NextSummary]_vars

-----------------------------------------------------------------------------
(* The Metric Extractor on its own, one percentage-like quantity varied at a time *)

\* the patterns whose number may have decimals, and those that take digits only
DecimalRates == { "yoy", "net_income_yoy", "previous_margin", "cash_flow_yoy", "margin" }
DigitRates ==
    { "cloud_growth", "software_growth", "hardware_growth",
      "full_year_first", "full_year_second" }

\* the numbers a rate pattern may match: 0, 0.5, 1, 1.5, 12, 28.5, 100
RateValues(q) ==
    IF q \in DecimalRates THEN { 0, 5000, 10000, 15000, 120000, 285000, 1000000 }
    ELSE { 0, 10000, 20000, 350000 }

\* what the value patterns match in every text drawn
BaseNums ==
    [ revenue |-> 152000, net_income |-> 38000, margin |-> 285000, cash_flow |-> 42000,
      cloud_revenue |-> 68000, software_revenue |-> 51000, hardware_revenue |-> 33000 ]

\* the numbers matched in a text where the pattern q matches v, or does not match
NumsOf(q, v) ==
    IF ~v.has THEN Without(BaseNums, q)
    ELSE IF q = "full_year_first"
         THEN Put(Put(BaseNums, "full_year_first", v.v), "full_year_second", 150000)
    ELSE IF q = "full_year_second"
         THEN Put(Put(BaseNums, "full_year_first", 140000), "full_year_second", v.v)
    ELSE Put(BaseNums, q, v.v)

ExtractorArgs ==
    UNION { { [ quantity |-> q, v |-> v,
                text |-> [ len |-> 1500, words |-> {"growth"}, nums |-> NumsOf(q, v) ] ] :
                v \in Options(RateValues(q)) } : q \in DecimalRates \cup DigitRates }

InitExtractor ==
    /\ InitCommon
    /\ arg \in ExtractorArgs
    /\ llm_client = FALSE

\* await DataExtractorAgent().process({"report_content": text}, {})
Extract ==
    /\ call = NoCall
    /\ DirectProcess("data_extractor",
                     [kind |-> "dict", d |-> [report_content |-> arg.text]],
                     EmptyDict, NoEnv)

NextExtractor == Extract

SpecExtractor == InitExtractor /\ [][NextExtractor]_vars

-----------------------------------------------------------------------------
(* The collaborator's answer as text, and the span the parser takes from it *)

\* Largest number of pieces an answer is made of.
MaxSegments == 3

\* a second object of the SentimentAnalysis shape
NegativeSentiment ==
    [ overall_sentiment |-> "negative",
      confidence |-> [t |-> "num", v |-> 9000],
      management_tone |-> "cautious_pessimistic",
      key_positive_indicators |-> << "cost discipline" >>,
      key_negative_indicators |-> << "revenue decline", "margin pressure" >>,
      risk_factors_identified |-> << "weak demand" >> ]

\* The pieces of an answer: plain text without braces, text with a lone "{", text
\* with a lone "}", text with a braced word such as "{notes}", and a JSON object.
Segments ==
    { [kind |-> "plain"], [kind |-> "open"], [kind |-> "close"], [kind |-> "braced"] }
    \cup { [kind |-> "object", data |-> d] : d \in {MockSentiment, NegativeSentiment} }

RawResponses == UNION { [1..n -> Segments] : n \in 0..MaxSegments }

HasOpen(seg) == seg.kind \in {"open", "braced", "object"}
HasClose(seg) == seg.kind \in {"close", "braced", "object"}

SetMin(S) == CHOOSE x \in S : \A y \in S : x <= y
SetMax(S) == CHOOSE x \in S : \A y \in S : x >= y

\* re.search(r'\{[\s\S]*\}', response) and json.loads of the match, lines 145-149:
\* the match runs from the first "{" of the response to its last "}"
ParseResponse(raw) ==
    LET opens == { k \in 1..Len(raw) : HasOpen(raw[k]) }
    IN  IF opens = {} THEN [kind |-> "text"]
        ELSE LET i == SetMin(opens)
                 closes == { k \in i..Len(raw) :
                               HasClose(raw[k]) /\ (k = i => raw[k].kind # "open") }
             IN  IF closes = {} THEN [kind |-> "text"]
                 ELSE IF SetMax(closes) = i /\ raw[i].kind = "object"
                      THEN [kind |-> "json", data |-> raw[i].data]
                      ELSE [kind |-> "bad_json"]

ParserArgs ==
    { [text |-> BleakText, has_llm |-> TRUE, raw |-> raw, resp |-> ParseResponse(raw)] :
        raw \in RawResponses }

InitParser ==
    /\ InitCommon
    /\ arg \in ParserArgs
    /\ llm_client = arg.has_llm

\* await SentimentAnalysisAgent(llm_client).process({"report_content": text}, {})
\* where llm_client.generate answers the text raw
ScoreAnswer ==
    /\ call = NoCall
    /\ DirectProcess("sentiment_analyzer",
                     [kind |-> "dict", d |-> [report_content |-> arg.text]],
                     EmptyDict, [NoEnv EXCEPT !.llm = arg.resp])

NextParser == ScoreAnswer

SpecParser == InitParser /\ [][NextParser]_vars

-----------------------------------------------------------------------------
(* The Metric Extractor called again and again on one text, other calls between *)

\* Largest number of calls on the text that are recorded.
MaxRepeats == 2

RepeatTexts == { SampleText, BleakText, EmptyText }

RepeatArgs ==
    { [input |-> [kind |-> "dict", d |-> [report_content |-> t]], context |-> c] :
        t \in RepeatTexts, c \in DirectContexts }

\* what the calls in between are handed
RepeatInputs ==
    { [kind |-> "none"],
      [kind |-> "dict", d |-> EmptyDict],
      [kind |-> "dict", d |-> [report_content |-> SampleText]] }

InitRepeat ==
    /\ InitCommon
    /\ llm_client = FALSE
    /\ arg \in RepeatArgs

\* await extractor.process({"report_content": text}, context) on the text under
\* study; trace[1] keeps what every such call returned and the instance it found
ExtractAgain ==
    /\ Len(trace[1]) < MaxRepeats
    /\ LET out == Process("data_extractor", arg.input, arg.context,
                          status["data_extractor"], llm_client, NoEnv)
       IN  /\ status' = [status EXCEPT !["data_extractor"] = out.status]
           /\ call' = [ stage |-> "data_extractor", input |-> arg.input,
                        context |-> arg.context, env |-> NoEnv,
                        status_before |-> status["data_extractor"], out |-> out ]
           /\ trace' = [trace EXCEPT ![1] =
                          Append(@, [ result |-> out.result,
                                      status_before |-> status["data_extractor"] ])]
    /\ UNCHANGED <<pc, ctx, results, aggregate, llm_client, state, arg>>

\* any other call on the same extractor or on another stage instance
NextRepeat ==
    \/ ExtractAgain
    \/ \E input \in RepeatInputs : DirectProcess("data_extractor", input, EmptyDict, NoEnv)
    \/ DirectProcess("summary_generator", [kind |-> "dict", d |-> EmptyDict], EmptyDict, NoEnv)
    \/ UpdateState("data_extractor", "key", "value")
    \/ Reset("data_extractor")

SpecRepeat == InitRepeat /\ [][NextRepeat]_vars

-----------------------------------------------------------------------------
(* One stage instance used while a call of its process is suspended *)

LifecycleTexts == { SampleText, EmptyText }

InitLifecycle ==
    /\ InitCommon
    /\ llm_client = TRUE
    /\ arg \in { [kind |-> "stage", stage |-> "sentiment_analyzer", text |-> t] :
                   t \in LifecycleTexts }

\* task r calls agent.process({"report_content": text}, {}) and runs to the await of
\* llm_client.generate, or to the end when execute does not reach it
BeginProcess(r) ==
    /\ pc[r] = "idle"
    /\ ctx' = [ctx EXCEPT ![r] = [report_content |-> arg.text]]
    /\ IF CallsLLM([report_content |-> arg.text], EmptyDict, llm_client)
       THEN /\ status' = [status EXCEPT ![arg.stage] = ProcessBegin(@)]
            /\ pc' = [pc EXCEPT ![r] = "awaiting_llm"]
            /\ UNCHANGED results
       ELSE LET out == Process(arg.stage, [kind |-> "dict", d |-> [report_content |-> arg.text]],
                               EmptyDict, status[arg.stage], llm_client, NoEnv)
            IN  /\ status' = [status EXCEPT ![arg.stage] = out.status]
                /\ results' = [results EXCEPT ![r] = Put(@, arg.stage, out.result)]
                /\ pc' = [pc EXCEPT ![r] = "done"]
    /\ UNCHANGED <<trace, aggregate, llm_client, state, arg, call>>

\* the collaborator answers task r and its process runs to the end
EndProcess(r, resp) ==
    /\ pc[r] = "awaiting_llm"
    /\ LET out == ProcessEnd(arg.stage,
                      Execute(arg.stage, ctx[r], EmptyDict, llm_client,
                              [NoEnv EXCEPT !.llm = resp]))
       IN  /\ status' = [status EXCEPT ![arg.stage] = out.status]
           /\ results' = [results EXCEPT ![r] = Put(@, arg.stage, out.result)]
    /\ pc' = [pc EXCEPT ![r] = "done"]
    /\ UNCHANGED <<ctx, trace, aggregate, llm_client, state, arg, call>>

NextLifecycle ==
    \/ \E r \in Runs : BeginProcess(r)
    \/ \E r \in Runs, resp \in PipelineResponses : EndProcess(r, resp)
    \/ \E value \in {"value", "other"} : UpdateState(arg.stage, "key", value)
    \/ Reset(arg.stage)

SpecLifecycle == InitLifecycle /\ [][NextLifecycle]_vars

-----------------------------------------------------------------------------
(* Properties of the stage contract *)

Called == call.stage # "none"

\* what execute does, or would do, on the input of the last direct call
CallExecute == Execute(call.stage, call.input.d, call.context, llm_client, call.env)

\* C1: for every stage and every input that validate_input rejects, process returns
\* a failed result with empty data and exactly one error message, execute is not
\* invoked and the shared context is left as it was.
C1_RejectedInputNeverExecutes ==
    (Called /\ ~ValidateInput(call.stage, call.input)) =>
        /\ ~call.out.raised
        /\ call.out.result.status = "failed"
        /\ call.out.result.data = EmptyDict
        /\ Len(call.out.result.errors) = 1
        /\ ~call.out.executed
        /\ call.out.context = call.context

\* a dict the Coordinator rejects has been handed to its process
C1_Witness ==
    /\ Called
    /\ call.stage = "coordinator"
    /\ call.input.kind = "dict"
    /\ ~ValidateInput(call.stage, call.input)
    /\ call.out.result.errors = <<"Invalid input data for coordinator">>

\* C2: for every stage and every valid input, if execute raises, process does not
\* raise: it returns a failed result whose only error is the fault's message, and
\* leaves the stage's status failed.
C2_FaultNeverEscapesProcess ==
    (Called /\ ValidateInput(call.stage, call.input) /\ CallExecute.raised) =>
        /\ ~call.out.raised
        /\ call.out.result.status = "failed"
        /\ call.out.result.errors = <<CallExecute.msg>>
        /\ call.out.status = "failed"

\* the execute of a subclass has raised during a call of process
C2_Witness ==
    /\ Called
    /\ ValidateInput(call.stage, call.input)
    /\ CallExecute.raised
    /\ call.out.result.errors = <<"division by zero">>

\* C3: when a call of process returns, also one rejected by input validation, the
\* stage's status field equals the status of the result the call returned.
C3_StatusReflectsLastResult ==
    Called => call.out.status = call.out.result.status

-----------------------------------------------------------------------------
(* Properties of the pipeline *)

ExpectedTrace ==
    << Enter("coordinator"), Return("coordinator"),
       Enter("data_extraction"), Return("data_extraction"),
       Enter("sentiment_analysis"), Return("sentiment_analysis"),
       Enter("summary_generation"), Return("summary_generation") >>

IsPrefix(a, b) == Len(a) <= Len(b) /\ a = SubSeq(b, 1, Len(a))

Entered(r, node) == \E i \in 1..Len(trace[r]) : trace[r][i] = Enter(node)

\* C4: in every run the nodes are run one after another in the order coordinator,
\* data extraction, sentiment analysis, summary generation: each is entered once,
\* only after the one before it has returned, and a finished run has run all four.
C4_NodesRunInFixedOrder ==
    \A r \in Runs :
        /\ IsPrefix(trace[r], ExpectedTrace)
        /\ pc[r] \in {"END", "done"} => trace[r] = ExpectedTrace

\* a run has finished while another one is suspended inside its sentiment node
C4_Witness ==
    \E r, q \in Runs :
        /\ pc[r] = "done"
        /\ trace[r] = ExpectedTrace
        /\ pc[q] = "awaiting_llm"

\* C5: every run calls the Coordinator stage's process once, before the Metric
\* Extractor, so that after a run the Coordinator's status is success or failed.
C5_CoordinatorProcessed ==
    \A r \in Runs :
        pc[r] = "done" =>
            /\ "coordinator" \in DOMAIN results[r]
            /\ status["coordinator"] \in {"success", "failed"}

NodeOf(s) ==
    CASE s = "data_extractor" -> "data_extraction"
      [] s = "sentiment_analyzer" -> "sentiment_analysis"
      [] s = "summary_generator" -> "summary_generation"

FailureEntry(s, result) ==
    CASE s = "data_extractor" -> "Data extraction failed: " \o FormatList(result.errors)
      [] s = "sentiment_analyzer" -> "Sentiment analysis failed: " \o FormatList(result.errors)
      [] s = "summary_generator" -> "Summary generation failed: " \o FormatList(result.errors)

InErrors(r, e) == \E i \in 1..Len(ctx[r]["errors"]) : ctx[r]["errors"][i] = e

\* C6: whenever a stage returns failed during a run, the run's errors list holds a
\* message for that failure and the run goes on to the next node: it is about to
\* enter it or has entered it.
C6_NoShortCircuit ==
    \A r \in Runs :
        \A s \in DOMAIN results[r] :
            results[r][s].status = "failed" =>
                /\ InErrors(r, FailureEntry(s, results[r][s]))
                /\ \/ pc[r] = NextNode(NodeOf(s))
                   \/ NextNode(NodeOf(s)) # "END" /\ Entered(r, NextNode(NodeOf(s)))

\* a run whose extraction failed has finished after entering the two later nodes
C6_Witness ==
    \E r \in Runs :
        /\ pc[r] = "done"
        /\ "data_extractor" \in DOMAIN results[r]
        /\ results[r]["data_extractor"].status = "failed"
        /\ ctx[r]["errors"][1]
             = "Data extraction failed: ['No report content available for extraction']"
        /\ Entered(r, "sentiment_analysis")
        /\ Entered(r, "summary_generation")

AggregateKeys ==
    { "financial_metrics", "segment_performance", "forward_guidance",
      "sentiment_analysis", "executive_summary", "errors" }

\* the next step of run r
RunStep(r) ==
    \/ CoordinatorNode(r)
    \/ DataExtractionNode(r)
    \/ SentimentNode(r)
    \/ SentimentCallLLM(r)
    \/ \E resp \in LLMResponses : SentimentResume(r, resp)
    \/ SummaryNode(r)
    \/ Finish(r)

\* C7: whatever the report content and the collaborator's answer, a run ends with an
\* aggregate that has the five output keys and errors, a list; no process call of a
\* run raises, and a run that has started can always go on until it has ended.
C7_AggregateAlwaysWellFormed ==
    \A r \in Runs :
        /\ pc[r] = "done" =>
              /\ AggregateKeys \subseteq DOMAIN aggregate[r]
              /\ aggregate[r]["errors"] \in Seq(STRING)
              /\ aggregate[r]["errors"] = ctx[r]["errors"]
        /\ pc[r] \notin {"idle", "done"} => ENABLED RunStep(r)

\* a run on the empty string and a run with an answer of another shape have ended
C7_Witness ==
    \E r, q \in Runs :
        /\ pc[r] = "done" /\ pc[q] = "done"
        /\ ctx[r]["report_content"] = EmptyText
        /\ aggregate[r]["financial_metrics"] = EmptyDict
        /\ "foo" \in DOMAIN aggregate[q]["sentiment_analysis"]

EmptyRun(r) == pc[r] = "done" /\ ctx[r]["report_content"] = EmptyText

\* C8 as stated: on the empty string every stage returns failed with an explicit
\* error and each of the five output keys of the aggregate is empty.
C8_EveryStageFailsOnEmpty ==
    \A r \in Runs :
        EmptyRun(r) =>
            /\ \A s \in Stages :
                  /\ s \in DOMAIN results[r]
                  /\ results[r][s].status = "failed"
                  /\ Len(results[r][s].errors) >= 1
            /\ \A k \in AggregateKeys \ {"errors"} :
                  k \in DOMAIN aggregate[r] /\ aggregate[r][k] = EmptyDict

\* C8: a run on the empty string ends with its aggregate; the Metric Extractor and
\* the Sentiment Scorer return failed, each with one explicit error; the
\* Recommendation Synthesizer returns success; the aggregate has the five output
\* keys, the first four empty and executive_summary filled from the defaults.
C8_EmptyReportRun ==
    \A r \in Runs :
        EmptyRun(r) =>
            /\ \A s \in {"data_extractor", "sentiment_analyzer"} :
                  /\ s \in DOMAIN results[r]
                  /\ results[r][s].status = "failed"
                  /\ Len(results[r][s].errors) = 1
            /\ results[r]["summary_generator"].status = "success"
            /\ AggregateKeys \subseteq DOMAIN aggregate[r]
            /\ \A k \in { "financial_metrics", "segment_performance", "forward_guidance",
                          "sentiment_analysis" } : aggregate[r][k] = EmptyDict
            /\ aggregate[r]["executive_summary"]
                 = GenerateSummary(SummaryInput(InitialState(EmptyText, EmptyDict)).d,
                                   EmptyDict, EmptyDict)
            /\ aggregate[r]["executive_summary"] # EmptyDict

\* a run on the empty string has ended
C8_Witness ==
    \E r \in Runs :
        /\ EmptyRun(r)
        /\ Len(aggregate[r]["errors"]) = 2
        /\ aggregate[r]["executive_summary"]["recommendation"] = "HOLD"

-----------------------------------------------------------------------------
(* Properties of the Sentiment Scorer *)

SentimentTones == {"optimistic", "optimistic_cautious", "cautious_pessimistic", "neutral"}

\* the object has the SentimentAnalysis shape
HasSentimentShape(d) ==
    /\ DOMAIN d = { "overall_sentiment", "confidence", "management_tone",
                    "key_positive_indicators", "key_negative_indicators",
                    "risk_factors_identified" }
    /\ d["overall_sentiment"] \in {"positive", "negative", "neutral"}
    /\ d["confidence"].t = "num" /\ d["confidence"].v \in 0..10000
    /\ d["management_tone"] \in SentimentTones

\* the collaborator failed: the call raised, there is no {...} span, the span does
\* not parse, or the object parsed has not the SentimentAnalysis shape
CollaboratorFailed(resp) ==
    \/ resp.kind \in {"raise", "text", "bad_json"}
    \/ resp.kind = "json" /\ ~HasSentimentShape(resp.data)

Scored == Called /\ call.stage = "sentiment_analyzer"

\* C9: with a collaborator configured, any failure of it makes the Sentiment Scorer
\* return the heuristic strategy's output for the same text, with status success.
C9_AnyFailureFallsBack ==
    (Scored /\ arg.has_llm /\ CollaboratorFailed(arg.resp)) =>
        /\ call.out.result.status = "success"
        /\ call.out.result.data = AnalyzeSentiment(arg.text)

\* C10: under either strategy, whatever confidence the collaborator returns or
\* omits, the confidence of a successful Sentiment Scorer result lies in [0, 1] and
\* has at most two decimals.
C10_ConfidenceClampedAndRounded ==
    (Scored /\ call.out.result.status = "success") =>
        /\ call.out.result.data["confidence"] \in 0..10000
        /\ call.out.result.data["confidence"] % 100 = 0

\* the collaborator answered a confidence above 1, which the result holds as 1
C10_Witness ==
    /\ Scored
    /\ arg.has_llm
    /\ arg.resp.kind = "json"
    /\ "confidence" \in DOMAIN arg.resp.data
    /\ arg.resp.data["confidence"] = [t |-> "num", v |-> 12000]
    /\ call.out.result.status = "success"
    /\ call.out.result.data["confidence"] = 10000


\* the numbers of distinct positive and negative keywords in the text scored
PositiveCount ==
    Cardinality({ i \in 1..Len(POSITIVE_KEYWORDS) : In(arg.text, POSITIVE_KEYWORDS[i]) })
NegativeCount ==
    Cardinality({ i \in 1..Len(NEGATIVE_KEYWORDS) : In(arg.text, NEGATIVE_KEYWORDS[i]) })

HeuristicScored == Scored /\ ~arg.has_llm /\ call.out.result.status = "success"

\* the two-decimal value c is a nearest one to the fraction num/den
NearestHundredth(c, num, den) ==
    /\ c % 100 = 0
    /\ 2 * (c * den - num) <= 100 * den
    /\ 2 * (num - c * den) <= 100 * den

\* C11 as stated: the confidence returned is the value of the formula itself.
C11_HeuristicFormulaExact ==
    HeuristicScored =>
        LET p == PositiveCount
            n == NegativeCount
            t == p + n
            d == call.out.result.data
        IN  /\ (t = 0 \/ p = n) =>
                 d["overall_sentiment"] = "neutral" /\ d["confidence"] = 5000
            /\ p > n =>
                 /\ d["overall_sentiment"] = "positive"
                 /\ p >= 5 => d["confidence"] = 8500
                 /\ p < 5 => d["confidence"] * t = Min(9500 * t, 7000 * t + 2500 * p)
            /\ p < n =>
                 /\ d["overall_sentiment"] = "negative"
                 /\ d["confidence"] * t = Min(9500 * t, 5000 * (t - p))

\* C11: with p and n the numbers of distinct positive and negative keywords in the
\* text and t = p + n, the heuristic strategy returns neutral with confidence 0.5
\* when t = 0 or p = n; positive when p > n, with confidence 0.85 if p >= 5 and
\* otherwise min(0.95, 0.70 + 0.25*p/t) rounded to two decimals; negative when
\* p < n, with confidence min(0.95, 0.5*(1 - p/t)) rounded to two decimals.
C11_HeuristicFormulaRounded ==
    HeuristicScored =>
        LET p == PositiveCount
            n == NegativeCount
            t == p + n
            d == call.out.result.data
        IN  /\ (t = 0 \/ p = n) =>
                 d["overall_sentiment"] = "neutral" /\ d["confidence"] = 5000
            /\ p > n =>
                 /\ d["overall_sentiment"] = "positive"
                 /\ p >= 5 => d["confidence"] = 8500
                 /\ p < 5 => NearestHundredth(d["confidence"],
                                              Min(9500 * t, 7000 * t + 2500 * p), t)
            /\ p < n =>
                 /\ d["overall_sentiment"] = "negative"
                 /\ NearestHundredth(d["confidence"], Min(9500 * t, 5000 * (t - p)), t)

\* five positive keywords and no negative one have been scored by the heuristic
C11_Witness ==
    /\ HeuristicScored
    /\ PositiveCount = 5
    /\ NegativeCount = 0
    /\ call.out.result.data["overall_sentiment"] = "positive"
    /\ call.out.result.data["confidence"] = 8500


-----------------------------------------------------------------------------
(* Properties of the Recommendation Synthesizer *)

Summarized == Called /\ call.stage = "summary_generator" /\ call.out.result.status = "success"

\* the total score of the inputs of the summary, with the defaults for absent ones
TotalScore ==
    LET g == IF arg.growth.has THEN arg.growth.v ELSE 0
        m == IF arg.margin.has THEN arg.margin.v ELSE 0
        st == IF arg.sentiment.has THEN arg.sentiment.v ELSE "neutral"
    IN  (IF g > 1500 THEN 2 ELSE IF g > 800 THEN 1 ELSE IF g < 0 THEN 0 - 1 ELSE 0)
        + (IF m > 3000 THEN 2 ELSE IF m > 2000 THEN 1 ELSE IF m < 1000 THEN 0 - 1 ELSE 0)
        + (IF st = "positive" THEN 1 ELSE IF st = "negative" THEN 0 - 1 ELSE 0)

\* C12: for all revenue growths, operating margins and sentiments, the
\* recommendation is BUY exactly when growth_score + margin_score + sentiment_score
\* is at least 3, SELL exactly when it is at most -2, and HOLD otherwise.
C12_RecommendationThresholds ==
    Summarized =>
        LET rec == call.out.result.data["recommendation"]
        IN  /\ rec = "BUY" <=> TotalScore >= 3
            /\ rec = "SELL" <=> TotalScore <= 0 - 2
            /\ rec = "HOLD" <=> (TotalScore > 0 - 2 /\ TotalScore < 3)

\* growth 0.15, margin 0.285 and a positive sentiment total exactly 3: BUY
C12_Witness ==
    /\ Summarized
    /\ arg.growth = Present(1500)
    /\ arg.margin = Present(2850)
    /\ arg.sentiment = Present("positive")
    /\ TotalScore = 3
    /\ call.out.result.data["recommendation"] = "BUY"


\* the executive summary of a finished run, if the run produced one
Produced(r) == pc[r] = "done" /\ aggregate[r]["executive_summary"] # EmptyDict

-----------------------------------------------------------------------------
(* Properties of the Metric Extractor *)

Extracted == Called /\ call.stage = "data_extractor" /\ call.out.result.status = "success"

\* where the extractor stores the quantity the pattern q matches
StoredRate(q, data) ==
    CASE q = "yoy" -> data["financial_metrics"]["revenue"]["yoy_change"]
      [] q = "net_income_yoy" -> data["financial_metrics"]["net_income"]["yoy_change"]
      [] q = "previous_margin" -> data["financial_metrics"]["operating_margin"]["previous"]
      [] q = "cash_flow_yoy" -> data["financial_metrics"]["free_cash_flow"]["yoy_change"]
      [] q = "margin" -> data["financial_metrics"]["operating_margin"]["current"]
      [] q = "cloud_growth" -> data["segment_performance"]["cloud_services"]["growth_rate"]
      [] q = "software_growth" ->
             data["segment_performance"]["software_products"]["growth_rate"]
      [] q = "hardware_growth" -> data["segment_performance"]["hardware"]["growth_rate"]
      [] q = "full_year_first" -> data["forward_guidance"]["full_year_growth"][1]
      [] q = "full_year_second" -> data["forward_guidance"]["full_year_growth"][2]

\* the normalization rule: v/100 when v > 1, v itself otherwise
RuleNormalized(v) == IF v > 10000 THEN v \div 100 ELSE v

\* C14: for every percentage-like quantity the Metric Extractor stores, a matched
\* number v is stored as v/100 when v > 1 and as v itself when v <= 1, the hardware
\* growth with its sign forced negative.
C14_NormalizationUniform ==
    (Extracted /\ arg.v.has) =>
        StoredRate(arg.quantity, call.out.result.data)
            = IF arg.quantity = "hardware_growth"
              THEN 0 - RuleNormalized(arg.v.v)
              ELSE RuleNormalized(arg.v.v)

\* the literal default of a growth or change figure
LiteralDefault(q) ==
    CASE q = "yoy" -> 1200
      [] q = "net_income_yoy" -> 1800
      [] q = "previous_margin" -> 2620
      [] q = "cash_flow_yoy" -> 2200
      [] q = "cloud_growth" -> 3500
      [] q = "software_growth" -> 800

\* C15: for revenue YoY, net-income YoY, previous margin, cash-flow YoY, cloud growth
\* and software growth, the literal default is stored when the rate pattern does not
\* match, and the normalized matched value whenever it matches, also when it is 0.
C15_DefaultOnlyWithoutMatch ==
    (Extracted /\ arg.quantity \in { "yoy", "net_income_yoy", "previous_margin",
                                     "cash_flow_yoy", "cloud_growth", "software_growth" }) =>
        StoredRate(arg.quantity, call.out.result.data)
            = IF arg.v.has THEN RuleNormalized(arg.v.v) ELSE LiteralDefault(arg.quantity)


-----------------------------------------------------------------------------
(* Properties of the Coordinator *)

CoordinatorFailed ==
    Called /\ call.stage = "coordinator" /\ call.out.result.status = "failed"

\* the input of the last call names a report path that cannot be read
UnreadablePath ==
    /\ call.input.kind = "dict"
    /\ "report_content" \notin DOMAIN call.input.d
    /\ "report_path" \in DOMAIN call.input.d
    /\ ~call.env.file.ok

\* C16: whenever the Coordinator's process returns a failed result, the shared
\* context is left exactly as it was, report_content remaining unset, and the result
\* carries an error, which for an unreadable path reports the read failure.
C16_FailedCoordinatorLeavesContext ==
    CoordinatorFailed =>
        /\ call.out.context = call.context
        /\ "report_content" \notin DOMAIN call.context =>
               "report_content" \notin DOMAIN call.out.context
        /\ Len(call.out.result.errors) >= 1
        /\ UnreadablePath =>
               call.out.result.errors
                   = <<"Failed to read report file: " \o call.env.file.msg>>


-----------------------------------------------------------------------------
(* Isolation of runs *)

\* the aggregate of a run on report_content executed alone, on fresh stage
\* instances, when the collaborator, if it is called, answers resp
AloneAggregate(report_content, has_llm, resp) ==
    LET s0 == InitialState(report_content, EmptyDict)
        s1 == CoordinatorNodeUpdate(s0)
        o2 == Process("data_extractor", ExtractionInput(s1), s1, "ready", has_llm, NoEnv)
        s2 == DataExtractionUpdate(o2.context, o2)
        o3 == Process("sentiment_analyzer", SentimentInput(s2), s2, "ready", has_llm,
                      [NoEnv EXCEPT !.llm = resp])
        s3 == SentimentUpdate(o3.context, o3)
        o4 == Process("summary_generator", SummaryInput(s3), s3, "ready", has_llm, NoEnv)
        s4 == SummaryUpdate(o4.context, o4)
    IN  Aggregate(s4)

OutputFields ==
    { "financial_metrics", "segment_performance", "forward_guidance",
      "sentiment_analysis", "executive_summary" }

\* C17: every run starts from a fresh context whose five output fields and errors
\* list are empty, and however two runs on the same stage instances interleave, the
\* final aggregate of each is the one the run produces alone on its report, for an
\* answer the collaborator may have given it.
C17_RunsIsolated ==
    \A r \in Runs :
        /\ pc[r] = EntryPoint =>
              /\ \A k \in OutputFields : ctx[r][k] = EmptyDict
              /\ ctx[r]["errors"] = <<>>
        /\ pc[r] = "done" =>
              \E resp \in LLMResponses :
                  aggregate[r] = AloneAggregate(ctx[r]["report_content"], llm_client, resp)

\* a run has ended while the run invoked before it is still suspended in the
\* collaborator's call
C17_Witness ==
    \E r, q \in Runs :
        /\ r < q
        /\ pc[r] = "awaiting_llm"
        /\ ctx[r]["report_content"] = SampleText
        /\ pc[q] = "done"
        /\ ctx[q]["report_content"] = BleakText
        /\ aggregate[q] = AloneAggregate(BleakText, TRUE, [kind |-> "json", data |-> MockSentiment])


-----------------------------------------------------------------------------
(* What the Recommendation Synthesizer reads *)

\* C18: when the Recommendation Synthesizer starts in a run, the financial metrics,
\* the segment performance and the sentiment analysis it computes from equal the
\* context's financial_metrics, segment_performance and sentiment_analysis fields.
C18_SynthesizerReadsContext ==
    \A r \in Runs :
        pc[r] = "summary_generation" =>
            LET d == SummaryInput(ctx[r]).d
            IN  /\ FinancialData(d) = ctx[r]["financial_metrics"]
                /\ SentimentData(d) = ctx[r]["sentiment_analysis"]
                /\ SegmentPerf(d, FinancialData(d)) = ctx[r]["segment_performance"]


-----------------------------------------------------------------------------
(* The default validate_input *)

\* the stages that do not override validate_input
DefaultValidated == DirectStages \ {"coordinator"}

\* C19: the default validate_input accepts exactly the non-empty keyed mappings: it
\* rejects None, every value that is not a mapping, and the empty mapping, and
\* accepts every mapping with at least one key.
C19_DefaultValidateInput ==
    (Called /\ call.stage \in DefaultValidated) =>
        /\ ValidateInput(call.stage, call.input)
             <=> (call.input.kind = "dict" /\ DOMAIN call.input.d # {})
        /\ call.out.executed <=> ValidateInput(call.stage, call.input)


-----------------------------------------------------------------------------
(* The span taken from the collaborator's answer *)

Objects(raw) == { k \in 1..Len(raw) : raw[k].kind = "object" }

\* C20: for every answer that contains a well-formed SentimentAnalysis object
\* preceded or followed by other text, also text with braces in it, the object the
\* result is made from is the first top-level object of the answer.
C20_FirstTopLevelObjectUsed ==
    (Scored /\ Objects(arg.raw) # {}) =>
        call.out.result.data
            = AnalyzeSentimentWithLLM(arg.text,
                  [kind |-> "json", data |-> arg.raw[SetMin(Objects(arg.raw))].data])

-----------------------------------------------------------------------------
(* Properties of repeated calls and of the stage status *)

C22_StatusNeverRetry ==
    \A s \in DOMAIN status : status[s] \in AgentStatus \ {"retry"}

\* a call whose execute raised has set the status, and it is failed
C22_Witness ==
    /\ Called
    /\ call.out.executed
    /\ call.env.body.kind = "raise"
    /\ call.stage = "custom_agent"
    /\ call.status_before = "success"
    /\ status[call.stage] = "failed"

\* C23: from any status and any state contents, reset leaves the stage with status
\* ready and an empty state mapping; the stage keeps its name (the model names an
\* instance by its index in status and state) and nothing else changes.
C23_ResetRestoresReady ==
    [][ Reset(arg.stage) =>
          /\ status'[arg.stage] = "ready"
          /\ state'[arg.stage] = EmptyDict
          /\ DOMAIN status' = DOMAIN status
          /\ DOMAIN state' = DOMAIN state
          /\ \A s \in DOMAIN status \ {arg.stage} :
                 status'[s] = status[s] /\ state'[s] = state[s]
          /\ UNCHANGED <<pc, ctx, results >> ]_vars

\* reset has acted on a stage that a suspended call had set running: a call is still
\* in flight, another has ended, and the status is ready with an empty state
C23_Witness ==
    /\ \E r \in Runs : pc[r] = "awaiting_llm"
    /\ \E r \in Runs : pc[r] = "done"
                       /\ results[r]["sentiment_analyzer"].status \in {"success", "failed"}
    /\ status["sentiment_analyzer"] = "ready"
    /\ state["sentiment_analyzer"] = EmptyDict

\* the runs whose call of the Sentiment Scorer's process is past validation and has
\* not returned
InFlight == { r \in Runs : pc[r] = "awaiting_llm" }

\* C24: whenever a call of a stage's process is in flight, the stage's status is
\* running, also when concurrent runs share the stage instance and one of them
\* returns while the other is in flight.
C24_RunningWhileInFlight ==
    InFlight # {} => status["sentiment_analyzer"] = "running"

-----------------------------------------------------------------------------
(* Properties of failures in a pipeline run *)

\* C25: a run on empty report content ends with exactly two entries in errors, the
\* extraction failure followed by the sentiment failure, with the extractor's and
\* the scorer's fields empty, while the Recommendation Synthesizer succeeds and fills
\* executive_summary from the defaults: HOLD, 0.44, the headline for mixed
\* performance and the fallback narrative.
C25_EmptyRunFabricatesSummary ==
    \A r \in Runs :
        EmptyRun(r) =>
            /\ aggregate[r]["errors"]
                 = << "Data extraction failed: "
                          \o "['No report content available for extraction']",
                      "Sentiment analysis failed: "
                          \o "['No report content available for sentiment analysis']" >>
            /\ \A k \in { "financial_metrics", "segment_performance", "forward_guidance",
                          "sentiment_analysis" } : aggregate[r][k] = EmptyDict
            /\ results[r]["summary_generator"].status = "success"
            /\ aggregate[r]["executive_summary"]
                 = [ headline |-> "Q3 Results Show Mixed Performance",
                     summary |-> [template |-> "fallback"],
                     recommendation |-> "HOLD",
                     confidence_score |-> 4400 ]

\* a run on empty content has ended on agents that hold an llm client, while the
\* other run was on a report with figures
C25_Witness ==
    \E r, q \in Runs :
        /\ EmptyRun(r)
        /\ llm_client
        /\ pc[q] = "done"
        /\ ctx[q]["report_content"] = SampleText
        /\ aggregate[r]["executive_summary"]["confidence_score"] = 4400

\* the stages of run r whose process returned failed, in pipeline order, and the
\* entries the nodes write for them
FailedStages(r) ==
    SelectSeq(<< "data_extractor", "sentiment_analyzer", "summary_generator" >>,
              LAMBDA s : s \in DOMAIN results[r] /\ results[r][s].status = "failed")

ExpectedErrors(r) ==
    [ i \in 1..Len(FailedStages(r)) |->
        FailureEntry(FailedStages(r)[i], results[r][FailedStages(r)[i]]) ]

\* C26: within a run the errors list only grows, and when the run ends it holds
\* exactly one entry per stage that returned failed, in pipeline order.
C26_ErrorsOnlyGrow ==
    /\ [][ \A r \in Runs :
             IsPrefix(Get(ctx[r], "errors", <<>>), Get(ctx'[r], "errors", <<>>)) ]_vars
    /\ [](\A r \in Runs :
             /\ "errors" \in DOMAIN ctx[r] => ctx[r]["errors"] = ExpectedErrors(r)
             /\ pc[r] = "done" => aggregate[r]["errors"] = ExpectedErrors(r))

\* a run with two failed stages and a run without failure have both ended
C26_Witness ==
    \E r, q \in Runs :
        /\ pc[r] = "done"
        /\ Len(FailedStages(r)) = 2
        /\ Len(aggregate[r]["errors"]) = 2
        /\ pc[q] = "done"
        /\ ctx[q]["report_content"] = BleakText
        /\ aggregate[q]["errors"] = <<>>

\* the stages whose process returned failed in the step of run r being taken
JustFailed(r) ==
    { s \in DOMAIN results'[r] \ DOMAIN results[r] : results'[r][s].status = "failed" }

\* C27: when a stage returns failed during a run, the orchestrator changes only the
\* errors list: the output fields of the shared context and report_content keep the
\* values they had before the stage was invoked.
C27_FailureChangesOnlyErrors ==
    [][ \A r \in Runs :
          JustFailed(r) # {} =>
              /\ DOMAIN ctx'[r] = DOMAIN ctx[r]
              /\ \A k \in DOMAIN ctx[r] \ {"errors"} : ctx'[r][k] = ctx[r][k]
              /\ Len(ctx'[r]["errors"]) = Len(ctx[r]["errors"]) + 1 ]_vars

\* the Sentiment Scorer has just failed in a run whose extraction had failed too
C27_Witness ==
    \E r \in Runs :
        /\ pc[r] = "summary_generation"
        /\ results[r]["sentiment_analyzer"].status = "failed"
        /\ Len(ctx[r]["errors"]) = 2
        /\ ctx[r]["report_content"] = EmptyText
        /\ ctx[r]["sentiment_analysis"] = EmptyDict
        /\ ctx[r]["metadata"] # EmptyDict

-----------------------------------------------------------------------------
(* One pipeline run over reports with various growth and margin figures *)

\* what the YoY pattern matches: 0, 0.05, 0.08, 0.0801, 5, 8, 9, 16 (percent)
YoyMatches == { 0, 500, 800, 801, 50000, 80000, 90000, 160000 }

\* what the operating margin pattern matches: 0.09, 5, 10, 28.5 (percent)
MarginMatches == { 900, 50000, 100000, 285000 }

ToneWords == { {"decline", "risk", "weak"}, {"strong", "growth", "record"}, {} }

GrowthTexts ==
    { [ len |-> 400,
        words |-> w,
        nums |-> [ k \in (IF rev THEN {"revenue"} ELSE {})
                         \cup (IF y.has THEN {"yoy"} ELSE {})
                         \cup (IF m.has THEN {"margin"} ELSE {}) |->
                     CASE k = "revenue" -> 152000
                       [] k = "yoy" -> y.v
                       [] k = "margin" -> m.v ] ] :
        w \in ToneWords, rev \in BOOLEAN,
        y \in Options(YoyMatches), m \in Options(MarginMatches) }

\* a single run of the pipeline on one of these reports
NextGrowth ==
    \/ \E t \in GrowthTexts : Invoke(1, t)
    \/ RunStep(1)

SpecGrowth == Init /\ [][NextGrowth]_vars

-----------------------------------------------------------------------------
(* Termination of a pipeline run *)

\* The event loop resumes every task that can go on, and the collaborator's call
\* answers or raises in the end: no run that can take a step waits for ever.
SpecFair == Spec /\ \A r \in Runs : WF_vars(RunStep(r))

\* C28: every run that was invoked ends and returns its aggregate after each of the
\* four nodes has been visited exactly once, whatever stages failed on the way.
C28_EveryRunTerminates ==
    \A r \in Runs :
        (pc[r] # "idle") ~>
            (/\ pc[r] = "done"
             /\ trace[r] = ExpectedTrace
             /\ AggregateKeys \subseteq DOMAIN aggregate[r])

\* a run in which two stages failed has ended after the Recommendation Synthesizer
\* was invoked, on agents without an llm client
C28_Witness ==
    \E r \in Runs :
        /\ ~llm_client
        /\ pc[r] = "done"
        /\ trace[r] = ExpectedTrace
        /\ results[r]["data_extractor"].status = "failed"
        /\ results[r]["sentiment_analyzer"].status = "failed"
        /\ results[r]["summary_generator"].status = "success"

-----------------------------------------------------------------------------
(* Properties of the figures that reach the Recommendation Synthesizer *)

\* what the synthesizer of run r reads, summary.py lines 90, 93 and 102
RevenueYoy(r) ==
    Get(Get(ctx[r]["financial_metrics"], "revenue", EmptyDict), "yoy_change", 0)

OperatingMargin(r) ==
    Get(Get(ctx[r]["financial_metrics"], "operating_margin", EmptyDict), "current", 0)

Sentiment(r) == Get(ctx[r]["sentiment_analysis"], "overall_sentiment", "neutral")

\* C29: in a pipeline run the revenue YoY that reaches the Recommendation
\* Synthesizer is never negative, so growth_score is never -1, and the run
\* recommends SELL only when the sentiment is negative, the operating margin is
\* below 0.10 or absent, and the revenue YoY is at most 0.08.
C29_SellOnlyOnNegativeTone ==
    \A r \in Runs :
        pc[r] = "done" =>
            /\ RevenueYoy(r) >= 0
            /\ GrowthScore(RevenueYoy(r)) # 0 - 1
            /\ ctx[r]["executive_summary"]["recommendation"] = "SELL" =>
                  /\ Sentiment(r) = "negative"
                  /\ OperatingMargin(r) < 1000
                  /\ RevenueYoy(r) <= 800

\* a run has recommended SELL on a report whose YoY of 8 percent and margin of 5
\* percent were extracted, and the negative tone came from the collaborator
C29_Witness ==
    /\ pc[1] = "done"
    /\ llm_client
    /\ ctx[1]["executive_summary"]["recommendation"] = "SELL"
    /\ "revenue" \in DOMAIN ctx[1]["financial_metrics"]
    /\ RevenueYoy(1) = 800
    /\ OperatingMargin(1) = 500
    /\ Sentiment(1) = "negative"
    /\ ctx[1]["report_content"].words = {"strong", "growth", "record"}

-----------------------------------------------------------------------------
(* Range of the heuristic confidence *)

\* C30: for every count of positive and negative keywords the heuristic confidence
\* of a negative classification is at most 0.50 and that of a positive one at least
\* 0.84; a positive classification with five or more positive keywords has 0.85,
\* one with fewer can have more, up to 0.95.
C30_HeuristicConfidenceRange ==
    HeuristicScored =>
        LET d == call.out.result.data
        IN  /\ d["overall_sentiment"] = "negative" => d["confidence"] <= 5000
            /\ d["overall_sentiment"] = "positive" =>
                  /\ d["confidence"] >= 8400
                  /\ d["confidence"] <= 9500
                  /\ PositiveCount >= 5 => d["confidence"] = 8500

\* a single positive keyword has been scored with more confidence than five would be
C30_Witness ==
    /\ HeuristicScored
    /\ PositiveCount = 1
    /\ NegativeCount = 0
    /\ call.out.result.data["overall_sentiment"] = "positive"
    /\ call.out.result.data["confidence"] = 9500

====
